---- MODULE Spec2Model ----
(***************************************************************************)
(* A model of sp-ipld: the IPLD value tree and its iterator, the DAG-JSON  *)
(* codec, the DAG-CBOR codec, the CID construction, and the multihash      *)
(* framing of sp-multihash.                                                *)
(*                                                                         *)
(* Bytes are the numbers 0..255, byte buffers and texts are sequences of   *)
(* bytes.  A u64 or an i128 does not fit the integers of the model         *)
(* checker, so a wide integer is a magnitude: the big-endian sequence of   *)
(* its base-256 digits without leading zeros (the empty sequence is 0).    *)
(***************************************************************************)
EXTENDS Integers, Sequences, FiniteSets, TLC

VARIABLES
  hash,     \* SpecMh: the Multihash under test
  cur,      \* SpecMh: the ByteCursor written to and read from
  rd,       \* SpecMh: the result of the last Multihash::read
  ops,      \* SpecMh: the operations applied so far, oldest first
  root,     \* SpecIter: the Ipld value iterated over
  stack,    \* SpecIter: IpldIter.stack, the top last
  yielded,  \* SpecIter: the values next() has returned, in order
  nones,    \* SpecIter: how often next() has returned None
  set0,     \* SpecIter: the collection handed to references
  refs,     \* SpecIter: the collection after references
  dag,      \* SpecJson, SpecCbor, SpecCid: the Ipld value under test
  bc,       \* SpecJson, SpecCbor: the ByteCursor encoded into and decoded from
  dec,      \* SpecJson, SpecCbor: the result of the last decode
  clog,     \* SpecJson, SpecCbor: the operations applied so far, oldest first
  cids      \* SpecCid: the results of dag_json::cid and dag_cbor::cid

varsMh == <<hash, cur, rd, ops>>

varsIter == <<root, stack, yielded, nones, set0, refs>>

varsCodec == <<dag, bc, dec, clog, cids>>

vars ==
  <<hash, cur, rd, ops, root, stack, yielded, nones, set0, refs,
    dag, bc, dec, clog, cids>>

(***************************************************************************)
(* Sequences and magnitudes                                                *)
(***************************************************************************)

Rep(b, n) == [i \in 1..n |-> b]

Take(s, n) == SubSeq(s, 1, IF n < Len(s) THEN n ELSE Len(s))

Drop(s, n) == SubSeq(s, n + 1, Len(s))

IsPrefix(p, s) == Len(p) <= Len(s) /\ SubSeq(s, 1, Len(p)) = p

\* s without its leading zero bytes
MagNorm(s) ==
  LET nz == {i \in 1..Len(s) : s[i] # 0}
  IN  IF nz = {} THEN <<>>
      ELSE SubSeq(s, CHOOSE i \in nz : \A j \in nz : i <= j, Len(s))

MagOfNat(n) ==
  MagNorm(<<n \div 16777216, (n \div 65536) % 256, (n \div 256) % 256,
            n % 256>>)

RECURSIVE MagToNat(_)
MagToNat(m) ==
  IF m = <<>> THEN 0 ELSE MagToNat(SubSeq(m, 1, Len(m) - 1)) * 256 + m[Len(m)]

\* -1, 0 or 1 as a < b, a = b or a > b
MagCmp(a, b) ==
  IF Len(a) # Len(b) THEN (IF Len(a) < Len(b) THEN -1 ELSE 1)
  ELSE IF a = b THEN 0
  ELSE LET i == CHOOSE k \in 1..Len(a) :
                  a[k] # b[k] /\ \A j \in 1..(k - 1) : a[j] = b[j]
       IN  IF a[i] < b[i] THEN -1 ELSE 1

MagLt(a, b) == MagCmp(a, b) < 0

MagLe(a, b) == MagCmp(a, b) <= 0

\* a * m + c byte by byte, as many bytes as a has and the carry out of them;
\* carry[k] is the carry out of the last k bytes
MagMulBytes(a, m, c) ==
  LET n == Len(a)
      carry[k \in 0..n] ==
        IF k = 0 THEN c ELSE (a[n - k + 1] * m + carry[k - 1]) \div 256
  IN  [bytes |-> SubSeq([i \in 1..n |-> (a[i] * m + carry[n - i]) % 256],
                        1, n),
       carry |-> carry[n]]

\* a * m + c for small m and c, eight bytes of a at a time: the low bytes
\* first, then what is above them with their carry
RECURSIVE MagMulAdd(_, _, _)
MagMulAdd(a, m, c) ==
  LET Low(r) ==
        IF r.carry = 0 /\ Len(a) <= 8 THEN r.bytes
        ELSE IF Len(a) <= 8 THEN MagOfNat(r.carry) \o r.bytes
        ELSE MagMulAdd(SubSeq(a, 1, Len(a) - 8), m, r.carry) \o r.bytes
  IN  IF a = <<>> THEN MagOfNat(c)
      ELSE Low(MagMulBytes(IF Len(a) <= 8 THEN a
                           ELSE SubSeq(a, Len(a) - 7, Len(a)), m, c))

\* the long division of the bytes of a, r0 the remainder brought to them:
\* each byte joins the running remainder, rem[k] the remainder after k bytes
MagDivBytes(a, d, r0) ==
  LET rem[k \in 0..Len(a)] ==
        IF k = 0 THEN r0 ELSE (rem[k - 1] * 256 + a[k]) % d
  IN  [q |-> SubSeq([i \in 1..Len(a) |-> (rem[i - 1] * 256 + a[i]) \div d],
                    1, Len(a)),
       r |-> rem[Len(a)]]

\* the long division of a by a small d, eight bytes of a at a time
RECURSIVE MagDivRaw(_, _)
MagDivRaw(a, d) ==
  LET Low(p, s) == [q |-> p.q \o s.q, r |-> s.r]
      High(p) == Low(p, MagDivBytes(SubSeq(a, Len(a) - 7, Len(a)), d, p.r))
  IN  IF Len(a) <= 8 THEN MagDivBytes(a, d, 0)
      ELSE High(MagDivRaw(SubSeq(a, 1, Len(a) - 8), d))

\* quotient and remainder of a by a small d
MagDivMod(a, d) ==
  LET Norm(p) == [q |-> MagNorm(p.q), r |-> p.r]
  IN  Norm(MagDivRaw(a, d))

\* a - 1, for a > 0
RECURSIVE MagDecRaw(_)
MagDecRaw(a) ==
  IF a[Len(a)] > 0 THEN [a EXCEPT ![Len(a)] = @ - 1]
  ELSE Append(MagDecRaw(SubSeq(a, 1, Len(a) - 1)), 255)

MagDec(a) == MagNorm(MagDecRaw(a))

MagInc(a) == MagMulAdd(a, 1, 1)

\* a mod 2^(8n): what a wrapping n-byte register keeps
MagWrap(a, n) == MagNorm(IF Len(a) > n THEN Drop(a, Len(a) - n) ELSE a)

(***************************************************************************)
(* ByteCursor (crate bytecursor): an owned buffer and a position           *)
(***************************************************************************)

ByteCursor_new(bytes) == [inner |-> bytes, pos |-> 0]

set_position(c, p) == [c EXCEPT !.pos = p]

\* write / write_all: zero-fill up to the position, overwrite what is there,
\* append the rest, advance the position
ByteCursor_write(c, buf) ==
  LET base == IF Len(c.inner) < c.pos
              THEN c.inner \o Rep(0, c.pos - Len(c.inner)) ELSE c.inner
      stop == c.pos + Len(buf)
  IN  [inner |-> SubSeq(base, 1, c.pos) \o buf \o Drop(base, stop),
       pos   |-> stop]

\* read: up to n bytes from the position, which advances by what was read
ByteCursor_read(c, n) ==
  LET from == IF c.pos < Len(c.inner) THEN c.pos ELSE Len(c.inner)
      data == Take(Drop(c.inner, from), n)
  IN  [data |-> data, cur |-> [c EXCEPT !.pos = c.pos + Len(data)]]

\* read_exact: all n bytes or an error, the position then unchanged
ByteCursor_read_exact(c, n) ==
  LET r == ByteCursor_read(c, n)
  IN  IF Len(r.data) = n THEN [ok |-> TRUE, data |-> r.data, cur |-> r.cur]
      ELSE [ok |-> FALSE, data |-> <<>>, cur |-> c]

(***************************************************************************)
(* unsigned-varint                                                         *)
(***************************************************************************)

\* encode::u64: 7-bit groups, least significant first, the top bit set on all
\* but the last byte
RECURSIVE varint_encode_u64(_)
varint_encode_u64(m) ==
  IF MagLt(m, <<128>>) THEN <<MagToNat(m)>>
  ELSE LET dm == MagDivMod(m, 128)
       IN  <<128 + dm.r>> \o varint_encode_u64(dm.q)

\* encode::u8
varint_encode_u8(n) == varint_encode_u64(MagOfNat(n))

is_last(b) == b < 128

\* the value of the groups of buf, least significant first
RECURSIVE GroupsValue(_)
GroupsValue(buf) ==
  IF buf = <<>> THEN <<>>
  ELSE MagMulAdd(GroupsValue(Tail(buf)), 128, buf[1] % 128)

\* decode::u64 of a buffer that ends with its first byte without the
\* continuation bit: the groups are or-ed into a u64 (bits shifted past bit 63
\* are lost), and a multi-byte encoding that ends in a zero byte is refused as
\* not minimal
varint_decode_u64(buf) ==
  IF Len(buf) > 1 /\ buf[Len(buf)] = 0 THEN [ok |-> FALSE, val |-> <<>>]
  ELSE [ok |-> TRUE, val |-> MagWrap(GroupsValue(buf), 8)]

(***************************************************************************)
(* sp-multihash: Multihash<S>                                              *)
(***************************************************************************)

\* the allocated digest width of the multihash inside a Cid (U64)
S == 64

Ok(x) == [ok |-> TRUE, val |-> x]

Err(e) == [ok |-> FALSE, err |-> e]

\* the call did not return: an index out of bounds or an unwrap of an Err
Panic == [ok |-> FALSE, panic |-> TRUE]

\* no call has been made yet
NoResult == [ok |-> FALSE, none |-> TRUE]

\* GenericArray::default()
DefaultDigest == Rep(0, S)

\* Multihash::wrap
wrap(code, input_digest) ==
  IF Len(input_digest) > S THEN Err("InvalidSize")
  ELSE Ok([code   |-> code,
           size   |-> Len(input_digest),
           digest |-> input_digest \o Rep(0, S - Len(input_digest))])

\* Multihash::digest
digest(mh) == SubSeq(mh.digest, 1, mh.size)

\* a slip: the cursor is left after the bytes written
write_multihash_no_rewind(w, code, size, dig) ==
  LET w1 == ByteCursor_write(w, varint_encode_u64(code))
      w2 == ByteCursor_write(w1, varint_encode_u8(size))
      w3 == ByteCursor_write(w2, dig)
  IN  [ok |-> TRUE, cur |-> w3]

\* write_multihash: writing to a vector cannot fail
write_multihash(w, code, size, dig) ==
  LET w1 == ByteCursor_write(w, varint_encode_u64(code))
      w2 == ByteCursor_write(w1, varint_encode_u8(size))
      w3 == ByteCursor_write(w2, dig)
  IN  [ok |-> TRUE, cur |-> set_position(w3, 0)]

\* Multihash::write
Multihash_write(mh, w) == write_multihash(w, mh.code, mh.size, digest(mh))

\* Multihash::to_bytes
Multihash_to_bytes(mh) == Multihash_write(mh, ByteCursor_new(<<>>)).cur.inner

\* read_u64, from its i-th turn of the loop on, with b the bytes read so far
RECURSIVE read_u64_loop(_, _, _)
read_u64_loop(r, b, i) ==
  LET Decoded(x, d) ==
        IF d.ok THEN [ok |-> TRUE, val |-> d.val, cur |-> x.cur]
        ELSE [ok |-> FALSE, err |-> "Varint(Overflow)", cur |-> x.cur]
      Byte(x) ==
        IF Len(x.data) = 0
        THEN [ok |-> FALSE, err |-> "Varint(Overflow)", cur |-> x.cur]
        ELSE IF is_last(x.data[1])
        THEN Decoded(x, varint_decode_u64(b \o x.data))
        ELSE read_u64_loop(x.cur, b \o x.data, i + 1)
  IN  IF i = 10 THEN [ok |-> FALSE, err |-> "Varint(Overflow)", cur |-> r]
      ELSE Byte(ByteCursor_read(r, 1))

read_u64(r) == read_u64_loop(r, <<>>, 0)

\* read_multihash
read_multihash(r) ==
  LET Digest(c, size, d) ==
        IF ~d.ok
        THEN [ok |-> FALSE, err |-> "Varint(Overflow)", cur |-> d.cur]
        ELSE [ok |-> TRUE,
              val |-> [code   |-> c.val,
                       size   |-> size,
                       digest |-> d.data \o
                                  SubSeq(DefaultDigest, size + 1, S)],
              cur |-> d.cur]
      Size(c, s) ==
        IF ~s.ok THEN s
        ELSE IF MagLt(MagOfNat(S), s.val) \/ MagLt(<<255>>, s.val)
        THEN [ok |-> FALSE, err |-> "InvalidSize", cur |-> s.cur]
        ELSE Digest(c, MagToNat(s.val),
                    ByteCursor_read_exact(s.cur, MagToNat(s.val)))
      Code(c) == IF ~c.ok THEN c ELSE Size(c, read_u64(c.cur))
  IN  Code(read_u64(r))

\* Multihash::read
Multihash_read(r) == read_multihash(r)

(***************************************************************************)
(* Text: ASCII codes, and the base encodings of crates base64 and          *)
(* multibase                                                               *)
(***************************************************************************)

AsciiTable ==
  ("\"" :> 34) @@ ("+" :> 43) @@ ("," :> 44) @@ ("-" :> 45) @@ ("." :> 46)
    @@ ("/" :> 47) @@ ("0" :> 48) @@ ("1" :> 49) @@ (":" :> 58) @@ ("=" :> 61)
    @@ ("A" :> 65) @@ ("E" :> 69) @@ ("Q" :> 81) @@ ("[" :> 91) @@ ("\\" :> 92)
    @@ ("]" :> 93) @@ ("a" :> 97) @@ ("b" :> 98) @@ ("c" :> 99) @@ ("d" :> 100)
    @@ ("e" :> 101) @@ ("f" :> 102) @@ ("l" :> 108) @@ ("n" :> 110)
    @@ ("r" :> 114) @@ ("s" :> 115) @@ ("t" :> 116) @@ ("u" :> 117)
    @@ ("y" :> 121) @@ ("z" :> 122) @@ ("{" :> 123) @@ ("}" :> 125)
    @@ (" " :> 32)

\* the text of a tuple of characters
Lit(chars) == [i \in 1..Len(chars) |-> AsciiTable[chars[i]]]

IsDigit(c) == 48 <= c /\ c <= 57

\* the first index from i on whose element is in set, Len(t) + 1 without one
FirstIn(t, i, set) ==
  LET hits == {j \in i..Len(t) : t[j] \in set}
  IN  IF hits = {} THEN Len(t) + 1
      ELSE CHOOSE j \in hits : \A k \in hits : j <= k

\* the sequences ss[lo] to ss[hi] joined
RECURSIVE ConcatRange(_, _, _)
ConcatRange(ss, lo, hi) ==
  IF lo > hi THEN <<>>
  ELSE IF lo = hi THEN ss[lo]
  ELSE ConcatRange(ss, lo, (lo + hi) \div 2)
         \o ConcatRange(ss, (lo + hi) \div 2 + 1, hi)

Concat(ss) == ConcatRange(ss, 1, Len(ss))

\* the standard base64 alphabet
Base64Char(i) ==
  IF i < 26 THEN 65 + i
  ELSE IF i < 52 THEN 71 + i
  ELSE IF i < 62 THEN i - 4
  ELSE IF i = 62 THEN 43 ELSE 47

\* the 6-bit value of a base64 character, -1 for any other byte
Base64Value(c) ==
  IF 65 <= c /\ c <= 90 THEN c - 65
  ELSE IF 97 <= c /\ c <= 122 THEN c - 71
  ELSE IF 48 <= c /\ c <= 57 THEN c + 4
  ELSE IF c = 43 THEN 62
  ELSE IF c = 47 THEN 63 ELSE -1

\* the characters of a group of one to three bytes, nothing for what is
\* missing
base64_group_nopad(b) ==
  IF Len(b) = 1
  THEN <<Base64Char(b[1] \div 4), Base64Char((b[1] % 4) * 16)>>
  ELSE IF Len(b) = 2
  THEN <<Base64Char(b[1] \div 4),
         Base64Char((b[1] % 4) * 16 + b[2] \div 16),
         Base64Char((b[2] % 16) * 4)>>
  ELSE <<Base64Char(b[1] \div 4),
         Base64Char((b[1] % 4) * 16 + b[2] \div 16),
         Base64Char((b[2] % 16) * 4 + b[3] \div 64),
         Base64Char(b[3] % 64)>>

\* the four characters of a group of one to three bytes, '=' for what is
\* missing
base64_group(b) ==
  IF Len(b) = 1
  THEN <<Base64Char(b[1] \div 4), Base64Char((b[1] % 4) * 16), 61, 61>>
  ELSE IF Len(b) = 2
  THEN <<Base64Char(b[1] \div 4),
         Base64Char((b[1] % 4) * 16 + b[2] \div 16),
         Base64Char((b[2] % 16) * 4), 61>>
  ELSE <<Base64Char(b[1] \div 4),
         Base64Char((b[1] % 4) * 16 + b[2] \div 16),
         Base64Char((b[2] % 16) * 4 + b[3] \div 64),
         Base64Char(b[3] % 64)>>

\* the groups of at most n elements of s, in order
Groups(s, n) ==
  [k \in 1..((Len(s) + n - 1) \div n) |->
     SubSeq(s, n * (k - 1) + 1, IF n * k < Len(s) THEN n * k ELSE Len(s))]

\* base64 without padding characters
base64_encode_nopad(b) ==
  Concat([k \in 1..Len(Groups(b, 3)) |-> base64_group_nopad(Groups(b, 3)[k])])

\* base64::encode: the standard alphabet, padded with '=' to a multiple of 4
base64_encode(b) ==
  Concat([k \in 1..Len(Groups(b, 3)) |-> base64_group(Groups(b, 3)[k])])

\* the bytes of a group of two to four base64 symbols
base64_ungroup(s) ==
  LET v(i) == Base64Value(s[i])
  IN  IF Len(s) < 2 THEN <<>>
      ELSE IF Len(s) = 2 THEN <<v(1) * 4 + v(2) \div 16>>
      ELSE IF Len(s) = 3
      THEN <<v(1) * 4 + v(2) \div 16, (v(2) % 16) * 16 + v(3) \div 4>>
      ELSE <<v(1) * 4 + v(2) \div 16, (v(2) % 16) * 16 + v(3) \div 4,
             (v(3) % 4) * 64 + v(4)>>

\* the bytes of base64 symbols s, all of them valid
Base64Bytes(s) ==
  LET Ungroup(gs) == Concat([k \in 1..Len(gs) |-> base64_ungroup(gs[k])])
  IN  Ungroup(Groups(s, 4))

\* base64::decode: the standard alphabet with canonical padding.  The last
\* group of at most four characters may end in padding after two or three
\* symbols; anything else that is no symbol is an invalid byte, a lone last
\* symbol an invalid length, a last group that padding does not fill to four
\* an invalid padding, and set bits that no byte takes up an invalid last
\* symbol
base64_decode(s) ==
  LET from == IF Len(s) % 4 = 0 THEN (IF s = <<>> THEN 0 ELSE Len(s) - 4)
              ELSE Len(s) - (Len(s) % 4)
      pads == {i \in (from + 1)..Len(s) : s[i] = 61}
      Symbols(n, last) ==
        IF \/ \E i \in 1..n : Base64Value(s[i]) < 0
           \/ \E i \in (n + 1)..Len(s) : s[i] # 61
           \/ pads # {} /\ n - from < 2
        THEN Err("base64: invalid byte")
        ELSE IF s # <<>> /\ n - from < 2 THEN Err("base64: invalid length")
        ELSE IF (Len(s) - from) % 4 # 0 THEN Err("base64: invalid padding")
        ELSE IF (n - from = 2 /\ last % 16 # 0) \/ (n - from = 3 /\ last % 4 # 0)
        THEN Err("base64: invalid last symbol")
        ELSE Ok(Base64Bytes(SubSeq(s, 1, n)))
      Unpadded(n) == Symbols(n, IF n = 0 THEN 0 ELSE Base64Value(s[n]))
  IN  Unpadded(IF pads = {} THEN Len(s)
               ELSE (CHOOSE i \in pads : \A j \in pads : i <= j) - 1)

\* the RFC 4648 lower-case base32 alphabet
Base32Char(i) == IF i < 26 THEN 97 + i ELSE 24 + i

\* the bits of a byte sequence, most significant first
BitsOf(b) == [i \in 1..(8 * Len(b)) |->
                (b[((i - 1) \div 8) + 1] \div (2 ^ (7 - ((i - 1) % 8)))) % 2]

\* base32 lower-case without padding: five bits a character, the last
\* character zero-filled
base32_encode(b) ==
  LET Chars(bits) ==
        LET bit(i) == IF i <= Len(bits) THEN bits[i] ELSE 0
        IN  [k \in 1..((Len(bits) + 4) \div 5) |->
               Base32Char(16 * bit(5 * k - 4) + 8 * bit(5 * k - 3)
                            + 4 * bit(5 * k - 2) + 2 * bit(5 * k - 1)
                            + bit(5 * k))]
  IN  Chars(BitsOf(b))

\* the bitcoin base58 alphabet: digits and letters without 0, O, I and l
Base58Char(i) ==
  IF i < 9 THEN 49 + i
  ELSE IF i < 17 THEN 56 + i
  ELSE IF i < 22 THEN 57 + i
  ELSE IF i < 33 THEN 58 + i
  ELSE IF i < 44 THEN 64 + i ELSE 65 + i

\* the base58 digits of a magnitude, most significant first
RECURSIVE Base58Digits(_)
Base58Digits(m) ==
  LET Digit(dm) == Append(Base58Digits(dm.q), Base58Char(dm.r))
  IN  IF m = <<>> THEN <<>> ELSE Digit(MagDivMod(m, 58))

\* base58btc: a '1' for each leading zero byte, then the digits of the number
base58_encode(b) ==
  LET Number(m) == Rep(49, Len(b) - Len(m)) \o Base58Digits(m)
  IN  Number(MagNorm(b))

(***************************************************************************)
(* sp-cid: Cid = CidGeneric<U64>, a version, a codec and a multihash       *)
(***************************************************************************)

Cid_new_v0(mh) == [version |-> 0, codec |-> <<112>>, hash |-> mh]

Cid_new_v1(codec, mh) == [version |-> 1, codec |-> codec, hash |-> mh]

\* Cid::to_bytes: a v0 CID is its multihash; a v1 CID is varint(1),
\* varint(codec) and the multihash
Cid_to_bytes(c) ==
  (IF c.version = 0 THEN <<>>
   ELSE varint_encode_u64(<<1>>) \o varint_encode_u64(c.codec))
    \o Multihash_to_bytes(c.hash)

\* the loop of varint_read_u64 over the bytes b: one byte of the cursor is
\* read into a temporary for each byte of b, up to the first byte of b
\* without the continuation bit, and the bytes of b up to it are decoded
RECURSIVE varint_read_u64_loop(_, _, _)
varint_read_u64_loop(r, b, i) ==
  IF i > Len(b) THEN [ok |-> FALSE, err |-> "VarIntDecodeError", cur |-> r]
  ELSE LET x == ByteCursor_read(r, 1)
       IN  IF is_last(b[i])
           THEN [ok  |-> TRUE,
                 val |-> varint_decode_u64(SubSeq(b, 1, i)).val,
                 cur |-> x.cur]
           ELSE varint_read_u64_loop(x.cur, b, i + 1)

\* varint_read_u64: the first 10 bytes of the whole buffer are copied into
\* buf (an index out of bounds when the buffer is shorter), then b is the
\* encoding of 0 written over buf
varint_read_u64(r) ==
  IF Len(r.inner) < 10 THEN [ok |-> FALSE, panic |-> TRUE, cur |-> r]
  ELSE varint_read_u64_loop(r, varint_encode_u64(<<>>), 1)

\* Cid::try_from(bytes): 34 bytes that start 0x12 0x20 are a v0 CID; anything
\* else is varint(version = 1), varint(codec) and a multihash, the two
\* varints read by the crate's reader varint_read_u64 from a cursor over the
\* bytes.  A panic of the reader is a panic of the call
Cid_try_from(bytes) ==
  LET Hash(c, h) == IF ~h.ok THEN Err(h.err) ELSE Ok(Cid_new_v1(c.val, h.val))
      Codec(c) ==
        IF "panic" \in DOMAIN c THEN Panic
        ELSE IF ~c.ok THEN Err("VarIntDecodeError")
        ELSE Hash(c, Multihash_read(c.cur))
      Version(v) ==
        IF "panic" \in DOMAIN v THEN Panic
        ELSE IF ~v.ok THEN Err("VarIntDecodeError")
        ELSE IF v.val # <<1>> THEN Err("InvalidCidVersion")
        ELSE Codec(varint_read_u64(v.cur))
  IN  IF Len(bytes) = 34 /\ bytes[1] = 18 /\ bytes[2] = 32
      THEN Ok(Cid_new_v0(wrap(<<18>>, Drop(bytes, 2)).val))
      ELSE Version(varint_read_u64(ByteCursor_new(bytes)))

\* the text form of a CID: base58btc without a prefix for v0, multibase
\* base32 lower-case (prefix 'b') for v1
Cid_to_string(c) ==
  LET Text(bytes) ==
        IF c.version = 0 THEN base58_encode(bytes)
        ELSE <<98>> \o base32_encode(bytes)
  IN  Text(Cid_to_bytes(c))

(***************************************************************************)
(* Ipld: the value tree.  A StringMap (a BTreeMap) is the sequence of its  *)
(* <<key, value>> entries in ascending byte order of the keys.             *)
(***************************************************************************)

Null == [kind |-> "Null"]

Bool(b) == [kind |-> "Bool", bool |-> b]

\* an i128 as a sign and a magnitude
Integer(neg, mag) == [kind |-> "Integer", int |-> [neg |-> neg, mag |-> mag]]

Float(x) == [kind |-> "Float", f64 |-> x]

String(s) == [kind |-> "String", string |-> s]

Bytes(b) == [kind |-> "Bytes", bytes |-> b]

List(xs) == [kind |-> "List", list |-> xs]

StringMap(m) == [kind |-> "StringMap", map |-> m]

Link(c) == [kind |-> "Link", link |-> c]

\* byte-lexicographic order of two strings
BytesLt(a, b) ==
  \E i \in 1..Len(b) :
    /\ Len(a) >= i - 1
    /\ \A j \in 1..(i - 1) : a[j] = b[j]
    /\ (Len(a) = i - 1 \/ a[i] < b[i])

\* BTreeMap::values
values(m) == [i \in 1..Len(m) |-> m[i][2]]

\* Ipld::iter
iter(ipld) == << <<ipld>> >>

\* a slip: a StringMap is not descended into
RECURSIVE IpldIter_next_flat_map(_)
IpldIter_next_flat_map(st) ==
  IF st = <<>> THEN [some |-> FALSE, stack |-> st]
  ELSE LET top == st[Len(st)]
       IN  IF top = <<>>
           THEN IpldIter_next_flat_map(SubSeq(st, 1, Len(st) - 1))
           ELSE LET ipld == Head(top)
                    adv  == [st EXCEPT ![Len(st)] = Tail(top)]
                IN  [some  |-> TRUE,
                     item  |-> ipld,
                     stack |-> IF ipld.kind = "List"
                               THEN Append(adv, ipld.list) ELSE adv]

\* a slip: an exhausted sub-iterator is popped and None is returned at once
IpldIter_next_no_loop(st) ==
  IF st = <<>> THEN [some |-> FALSE, stack |-> st]
  ELSE LET top == st[Len(st)]
       IN  IF top = <<>>
           THEN [some |-> FALSE, stack |-> SubSeq(st, 1, Len(st) - 1)]
           ELSE LET ipld == Head(top)
                    adv  == [st EXCEPT ![Len(st)] = Tail(top)]
                IN  [some  |-> TRUE,
                     item  |-> ipld,
                     stack |-> CASE ipld.kind = "List" ->
                                      Append(adv, ipld.list)
                                 [] ipld.kind = "StringMap" ->
                                      Append(adv, values(ipld.map))
                                 [] OTHER -> adv]

\* a slip: a leaf pushes an empty sub-iterator
RECURSIVE IpldIter_next_push_leaf(_)
IpldIter_next_push_leaf(st) ==
  IF st = <<>> THEN [some |-> FALSE, stack |-> st]
  ELSE LET top == st[Len(st)]
       IN  IF top = <<>>
           THEN IpldIter_next_push_leaf(SubSeq(st, 1, Len(st) - 1))
           ELSE LET ipld == Head(top)
                    adv  == [st EXCEPT ![Len(st)] = Tail(top)]
                IN  [some  |-> TRUE,
                     item  |-> ipld,
                     stack |-> CASE ipld.kind = "List" ->
                                      Append(adv, ipld.list)
                                 [] ipld.kind = "StringMap" ->
                                      Append(adv, values(ipld.map))
                                 [] OTHER -> Append(adv, <<>>)]

\* IpldIter::next: the item returned (None when the stack has run empty) and
\* the stack it leaves
RECURSIVE IpldIter_next(_)
IpldIter_next(st) ==
  IF st = <<>> THEN [some |-> FALSE, stack |-> st]
  ELSE LET top == st[Len(st)]
       IN  IF top = <<>>
           THEN IpldIter_next(SubSeq(st, 1, Len(st) - 1))
           ELSE LET ipld == Head(top)
                    adv  == [st EXCEPT ![Len(st)] = Tail(top)]
                IN  [some  |-> TRUE,
                     item  |-> ipld,
                     stack |-> CASE ipld.kind = "List" ->
                                      Append(adv, ipld.list)
                                 [] ipld.kind = "StringMap" ->
                                      Append(adv, values(ipld.map))
                                 [] OTHER -> adv]

\* a slip: a link found is put in front of the collection
RECURSIVE references_prepend(_, _)
references_prepend(st, set) ==
  LET n == IpldIter_next(st)
  IN  IF ~n.some THEN set
      ELSE references_prepend(n.stack,
             IF n.item.kind = "Link" THEN <<n.item.link>> \o set ELSE set)

\* the loop of Ipld::references over an iterator in state st
RECURSIVE references_loop(_, _)
references_loop(st, set) ==
  LET n == IpldIter_next(st)
  IN  IF ~n.some THEN set
      ELSE references_loop(n.stack,
             IF n.item.kind = "Link" THEN Append(set, n.item.link) ELSE set)

\* Ipld::references, the collection a Vec<Cid>
references(ipld, set) == references_loop(iter(ipld), set)

(***************************************************************************)
(* Decimal digits                                                          *)
(***************************************************************************)

\* the decimal digits of a magnitude, most significant first
RECURSIVE DecDigits(_)
DecDigits(m) ==
  IF MagLt(m, <<10>>) THEN <<MagToNat(m)>>
  ELSE IF MagLt(m, <<15, 66, 64>>)
  THEN LET dm == MagDivMod(m, 10)
       IN  Append(DecDigits(dm.q), dm.r)
  ELSE LET dm == MagDivMod(m, 1000000)
       IN  DecDigits(dm.q) \o [i \in 1..6 |-> (dm.r \div (10 ^ (6 - i))) % 10]

\* the number of at most nine digits: its first half and its second
RECURSIVE DigitsToNat(_)
DigitsToNat(ds) ==
  LET h == Len(ds) \div 2
  IN  IF Len(ds) <= 1 THEN (IF ds = <<>> THEN 0 ELSE ds[1])
      ELSE DigitsToNat(SubSeq(ds, 1, h)) * 10 ^ (Len(ds) - h)
             + DigitsToNat(SubSeq(ds, h + 1, Len(ds)))

\* the magnitude of a run of digits, six digits at a time
RECURSIVE DigitsToMag(_)
DigitsToMag(ds) ==
  IF Len(ds) <= 9 THEN MagOfNat(DigitsToNat(ds))
  ELSE MagMulAdd(DigitsToMag(SubSeq(ds, 1, Len(ds) - 6)), 1000000,
                 DigitsToNat(SubSeq(ds, Len(ds) - 5, Len(ds))))

RECURSIVE StripLeadingZeros(_)
StripLeadingZeros(ds) ==
  IF ds # <<>> /\ ds[1] = 0 THEN StripLeadingZeros(Tail(ds)) ELSE ds

RECURSIVE TrailingZeros(_)
TrailingZeros(ds) ==
  IF ds # <<>> /\ ds[Len(ds)] = 0
  THEN 1 + TrailingZeros(SubSeq(ds, 1, Len(ds) - 1)) ELSE 0

\* digits + 1 in the last place; the carry may add a digit
RECURSIVE DigitsInc(_)
DigitsInc(ds) ==
  IF ds = <<>> THEN <<1>>
  ELSE IF ds[Len(ds)] < 9 THEN [ds EXCEPT ![Len(ds)] = @ + 1]
  ELSE Append(DigitsInc(SubSeq(ds, 1, Len(ds) - 1)), 0)

(***************************************************************************)
(* f64: the eight bytes of the IEEE-754 bit pattern, most significant      *)
(* first.  A decimal is a sequence of digits and a power of ten.           *)
(***************************************************************************)

\* a * m^k
RECURSIVE MagTimesPow(_, _, _)
MagTimesPow(a, m, k) ==
  LET Rest(half) == MagTimesPow(half, m, k - k \div 2)
  IN  IF k = 0 \/ a = <<>> THEN a
      ELSE IF k <= 6 THEN MagMulAdd(a, m ^ k, 0)
      ELSE Rest(MagTimesPow(a, m, k \div 2))

\* a / 10^k, rounded down, and whether anything was lost
RECURSIVE DivPow10(_, _, _)
DivPow10(a, k, lost) ==
  LET Rest(h) == DivPow10(h.q, k - 48, h.sticky)
      Step(dm, n) == DivPow10(dm.q, k - n, dm.r # 0 \/ lost)
  IN  IF k = 0 \/ a = <<>> THEN [q |-> a, sticky |-> lost]
      ELSE IF k > 48 THEN Rest(DivPow10(a, 48, lost))
      ELSE IF k >= 6 THEN Step(MagDivMod(a, 1000000), 6)
      ELSE Step(MagDivMod(a, 10 ^ k), k)

StripZeroBits(bits) ==
  LET ones == {i \in 1..Len(bits) : bits[i] = 1}
  IN  IF bits = <<>> \/ ones = {} THEN <<>>
      ELSE Drop(bits, (CHOOSE i \in ones : \A j \in ones : i <= j) - 1)

\* the number of a run of bits: its first half and its second
RECURSIVE BitsToNat(_)
BitsToNat(bits) ==
  LET h == Len(bits) \div 2
  IN  IF Len(bits) <= 1 THEN (IF bits = <<>> THEN 0 ELSE bits[1])
      ELSE BitsToNat(SubSeq(bits, 1, h)) * 2 ^ (Len(bits) - h)
             + BitsToNat(SubSeq(bits, h + 1, Len(bits)))

NatToBits(n, w) == [i \in 1..w |-> (n \div (2 ^ (w - i))) % 2]

BitsToBytes(bits) ==
  [k \in 1..(Len(bits) \div 8) |-> BitsToNat(SubSeq(bits, 8 * k - 7, 8 * k))]

\* bits + 1 in the same width: the last 0 becomes 1, the 1s after it 0
BitsInc(bits) ==
  LET zeros == {i \in 1..Len(bits) : bits[i] = 0}
      Carry(z) == [i \in 1..Len(bits) |->
                     IF i < z THEN bits[i] ELSE IF i = z THEN 1 ELSE 0]
  IN  Carry(IF zeros = {} THEN 0
            ELSE CHOOSE i \in zeros : \A j \in zeros : j <= i)

F64Zero(neg) == <<IF neg THEN 128 ELSE 0>> \o Rep(0, 7)

F64Inf(neg) == <<IF neg THEN 255 ELSE 127, 240>> \o Rep(0, 6)

F64NaN == <<127, 248>> \o Rep(0, 6)

\* the f64 nearest to (-1)^neg * (q + s) * 2^(-sh), ties to even, where qbits
\* are the bits of q without leading zeros and 0 <= s < 1 is zero unless
\* sticky; q has more bits than an f64 keeps whenever sticky is set.  An
\* infinity above the range
f64_pack(neg, qbits, sticky, sh) ==
  LET L      == Len(qbits)
      p      == L - 1 - sh
      normal == p >= -1022
      E      == IF normal THEN p + 1023 ELSE 0
      keep   == IF normal THEN 53 ELSE L - sh + 1074
      bit(i) == IF 1 <= i /\ i <= L THEN qbits[i] ELSE 0
      m0     == [i \in 1..52 |-> bit(keep - 52 + i)]
      rest   == sticky \/ \E i \in (keep + 2)..L : i >= 1 /\ qbits[i] = 1
      up     == bit(keep + 1) = 1 /\ (rest \/ m0[52] = 1)
      body   == NatToBits(E, 11) \o m0
  IN  IF qbits = <<>> THEN F64Zero(neg)
      ELSE IF E > 2046 THEN F64Inf(neg)
      ELSE BitsToBytes(<<IF neg THEN 1 ELSE 0>>
                         \o (IF up THEN BitsInc(body) ELSE body))

\* the f64 nearest to (-1)^neg * ds * 10^e10, ties to even: an infinity
\* above the range, a zero below it
f64_from_decimal(neg, ds, e10) ==
  LET sbytes == IF e10 < 0 THEN 9 + ((0 - e10) * 5) \div 12 ELSE 0
      Scaled(scaled) ==
        f64_pack(neg, StripZeroBits(BitsOf(scaled.q)), scaled.sticky,
                 8 * sbytes)
      Round(d, len) ==
        IF d = <<>> THEN F64Zero(neg)
        ELSE IF len + e10 > 310 THEN F64Inf(neg)
        ELSE IF len + e10 < -330 THEN F64Zero(neg)
        ELSE Scaled(IF e10 < 0
                    THEN DivPow10(d \o Rep(0, sbytes), 0 - e10, FALSE)
                    ELSE [q |-> MagTimesPow(d, 10, e10), sticky |-> FALSE])
      Mag(d) == Round(d, Len(DecDigits(d)))
  IN  Mag(DigitsToMag(ds))

F64Neg(x) == x[1] >= 128

F64Abs(x) == [x EXCEPT ![1] = @ % 128]

F64Exp(x) == (x[1] % 128) * 16 + x[2] \div 16

F64Frac(x) == MagNorm(<<x[2] % 16>> \o Drop(x, 2))

is_nan(x) == F64Exp(x) = 2047 /\ F64Frac(x) # <<>>

is_infinite(x) == x \in {F64Inf(FALSE), F64Inf(TRUE)}

is_zero(x) == x \in {F64Zero(FALSE), F64Zero(TRUE)}

\* m = odd * 2^z for m > 0: the odd part and z, the bits of m up to its last
\* 1 and the number of 0s after it
OddPart(m) ==
  LET bits == BitsOf(m)
      last == CHOOSE i \in 1..Len(bits) :
                bits[i] = 1 /\ \A j \in (i + 1)..Len(bits) : bits[j] = 0
      pad  == (8 - (last % 8)) % 8
  IN  [odd |-> MagNorm(BitsToBytes(Rep(0, pad) \o SubSeq(bits, 1, last))),
       z |-> Len(bits) - last]

\* the exact decimal of a finite x other than zero, without its sign
f64_exact(x) ==
  LET e == IF F64Exp(x) = 0 THEN 1 ELSE F64Exp(x)
      Strip(ds, tz, q) ==
        [dig |-> Take(ds, Len(ds) - tz), exp |-> (IF q < 0 THEN q ELSE 0) + tz]
      Digits(ds, q) == Strip(ds, TrailingZeros(ds), q)
      Scale(op, q) ==
        Digits(DecDigits(IF q >= 0 THEN MagTimesPow(op.odd, 2, q)
                         ELSE MagTimesPow(op.odd, 5, 0 - q)), q)
      Odd(op) == Scale(op, e - 1075 + op.z)
  IN  Odd(OddPart(IF F64Exp(x) = 0 THEN F64Frac(x)
                  ELSE MagNorm(<<16 + (x[2] % 16)>> \o Drop(x, 2))))

DecimalNorm(ds, e) ==
  LET Strip(tz) == [dig |-> Take(ds, Len(ds) - tz), exp |-> e + tz]
  IN  Strip(TrailingZeros(ds))

\* x read back from the first n digits of its exact decimal ex, rounded down
\* (up = FALSE) or up
ReadsBack(x, ex, n, up) ==
  LET lo == Take(ex.dig, n)
  IN  f64_from_decimal(FALSE, IF up THEN DigitsInc(lo) ELSE lo,
                       ex.exp + Len(ex.dig) - n) = F64Abs(x)

\* the digits ryu prints for a finite x other than zero: the shortest decimal
\* that reads back as x, the nearer to x of two, and of two equally near (the
\* digits removed are a 5 and nothing more) the one whose last digit is even
f64_shortest(x) ==
  LET Min(s) == CHOOSE k \in s : \A j \in s : k <= j
      Pick(ex, reads, n) ==
        LET lo == Take(ex.dig, n)
            e  == ex.exp + Len(ex.dig) - n
        IN  IF n >= Len(ex.dig) THEN ex
            ELSE IF /\ reads[n][FALSE]
                    /\ \/ ~reads[n][TRUE]
                       \/ ex.dig[n + 1] < 5
                       \/ /\ ex.dig[n + 1] = 5
                          /\ n + 1 = Len(ex.dig)
                          /\ lo[n] % 2 = 0
            THEN DecimalNorm(lo, e)
            ELSE DecimalNorm(DigitsInc(lo), e)
      Shortest(ex, reads) ==
        Pick(ex, reads,
             Min({k \in 1..17 : \/ k >= Len(ex.dig)
                                \/ reads[k][FALSE]
                                \/ reads[k][TRUE]}))
      Exact(ex) ==
        Shortest(ex, [k \in 1..17 |->
                        [up \in BOOLEAN |->
                           k < Len(ex.dig) /\ ReadsBack(x, ex, k, up)]])
  IN  Exact(f64_exact(x))

\* f64's PartialEq: NaN equals nothing, the two zeros are equal
F64Eq(x, y) ==
  /\ ~is_nan(x)
  /\ ~is_nan(y)
  /\ x = y \/ (is_zero(x) /\ is_zero(y))

\* the derived PartialEq of Ipld
RECURSIVE IpldEq(_, _)
IpldEq(a, b) ==
  /\ a.kind = b.kind
  /\ CASE a.kind = "Float" -> F64Eq(a.f64, b.f64)
       [] a.kind = "List" ->
            /\ Len(a.list) = Len(b.list)
            /\ \A i \in 1..Len(a.list) : IpldEq(a.list[i], b.list[i])
       [] a.kind = "StringMap" ->
            /\ Len(a.map) = Len(b.map)
            /\ \A i \in 1..Len(a.map) :
                 a.map[i][1] = b.map[i][1] /\ IpldEq(a.map[i][2], b.map[i][2])
       [] OTHER -> a = b

(***************************************************************************)
(* serde_json, writing: the compact formatter                              *)
(***************************************************************************)

DigitsText(ds) == [i \in 1..Len(ds) |-> 48 + ds[i]]

\* itoa of an i128
itoa(int) ==
  (IF int.neg THEN <<45>> ELSE <<>>) \o DigitsText(DecDigits(int.mag))

\* itoa of a small integer
itoa_i32(n) ==
  itoa([neg |-> n < 0, mag |-> MagOfNat(IF n < 0 THEN 0 - n ELSE n)])

\* the format of a finite f64: plain decimals for 1e-5 <= |x| < 1e16,
\* scientific notation outside, the exponent written with its sign: e+16,
\* e-7
ryu_format(x) ==
  LET sign == IF F64Neg(x) THEN <<45>> ELSE <<>>
      Format(ds, k) ==
        LET length == Len(ds)
            kk     == length + k
        IN  IF 0 <= k /\ kk <= 16 THEN ds \o Rep(48, k) \o <<46, 48>>
            ELSE IF 0 < kk /\ kk <= 16 THEN Take(ds, kk) \o <<46>> \o Drop(ds, kk)
            ELSE IF -5 < kk /\ kk <= 0 THEN <<48, 46>> \o Rep(48, 0 - kk) \o ds
            ELSE (IF length = 1 THEN ds ELSE Take(ds, 1) \o <<46>> \o Drop(ds, 1))
                   \o <<101>> \o (IF kk - 1 >= 0 THEN <<43>> ELSE <<>>)
                   \o itoa_i32(kk - 1)
      Shortest(v) == Format(DigitsText(v.dig), v.exp)
  IN  sign \o (IF is_zero(x) THEN <<48, 46, 48>> ELSE Shortest(f64_shortest(x)))

\* Serializer::serialize_f64: NaN and the infinities are written as null
serialize_f64(x) ==
  IF is_nan(x) \/ is_infinite(x) THEN Lit(<<"n", "u", "l", "l">>)
  ELSE ryu_format(x)

HexChar(n) == IF n < 10 THEN 48 + n ELSE 87 + n

\* the escape of one character of a string
escape(c) ==
  IF c = 34 THEN <<92, 34>>
  ELSE IF c = 92 THEN <<92, 92>>
  ELSE IF c = 8 THEN <<92, 98>>
  ELSE IF c = 9 THEN <<92, 116>>
  ELSE IF c = 10 THEN <<92, 110>>
  ELSE IF c = 12 THEN <<92, 102>>
  ELSE IF c = 13 THEN <<92, 114>>
  ELSE IF c < 32 THEN <<92, 117, 48, 48, HexChar(c \div 16), HexChar(c % 16)>>
  ELSE <<c>>

\* Serializer::serialize_str
serialize_str(s) ==
  <<34>> \o Concat([i \in 1..Len(s) |-> escape(s[i])]) \o <<34>>

JoinComma(ts) ==
  Concat([i \in 1..Len(ts) |-> IF i = 1 THEN ts[i] ELSE <<44>> \o ts[i]])

\* Serializer::collect_seq of elements already written
collect_seq(ts) == <<91>> \o JoinComma(ts) \o <<93>>

\* Serializer::collect_map of <<key, value already written>> entries
collect_map(es) ==
  <<123>>
    \o JoinComma([i \in 1..Len(es) |-> serialize_str(es[i][1]) \o <<58>> \o es[i][2]])
    \o <<125>>

(***************************************************************************)
(* DAG-JSON, writing                                                       *)
(***************************************************************************)

SPECIAL_KEY == <<47>>

BytesKey == Lit(<<"b", "y", "t", "e", "s">>)

\* fn serialize, which Wrapper applies to the children of a value
RECURSIVE serialize(_)
serialize(ipld) ==
  CASE ipld.kind = "Null" -> Lit(<<"n", "u", "l", "l">>)
    [] ipld.kind = "Bool" ->
         IF ipld.bool THEN Lit(<<"t", "r", "u", "e">>)
         ELSE Lit(<<"f", "a", "l", "s", "e">>)
    [] ipld.kind = "Integer" -> itoa(ipld.int)
    [] ipld.kind = "Float" -> serialize_f64(ipld.f64)
    [] ipld.kind = "String" -> serialize_str(ipld.string)
    [] ipld.kind = "Bytes" ->
         LET value == base64_encode(ipld.bytes)
             inner_map == << <<BytesKey, serialize_str(value)>> >>
         IN  collect_map(<< <<SPECIAL_KEY, collect_map(inner_map)>> >>)
    [] ipld.kind = "List" ->
         collect_seq([i \in 1..Len(ipld.list) |-> serialize(ipld.list[i])])
    [] ipld.kind = "StringMap" ->
         collect_map([i \in 1..Len(ipld.map) |->
                        <<ipld.map[i][1], serialize(ipld.map[i][2])>>])
    [] ipld.kind = "Link" ->
         LET value == base64_encode(Cid_to_bytes(ipld.link))
         IN  collect_map(<< <<SPECIAL_KEY, serialize_str(value)>> >>)

\* impl Serialize for Ipld, which serde_json::to_string applies to the root
Ipld_serialize(ipld) ==
  CASE ipld.kind = "Null" -> Lit(<<"n", "u", "l", "l">>)
    [] ipld.kind = "Bool" ->
         IF ipld.bool THEN Lit(<<"t", "r", "u", "e">>)
         ELSE Lit(<<"f", "a", "l", "s", "e">>)
    [] ipld.kind = "Integer" -> itoa(ipld.int)
    [] ipld.kind = "Float" -> serialize_f64(ipld.f64)
    [] ipld.kind = "String" -> serialize_str(ipld.string)
    [] ipld.kind = "Bytes" ->
         LET value == base64_encode(ipld.bytes)
             inner_map == << <<BytesKey, serialize_str(value)>> >>
         IN  collect_map(<< <<SPECIAL_KEY, collect_map(inner_map)>> >>)
    [] ipld.kind = "List" ->
         collect_seq([i \in 1..Len(ipld.list) |-> serialize(ipld.list[i])])
    [] ipld.kind = "StringMap" ->
         collect_map([i \in 1..Len(ipld.map) |->
                        <<ipld.map[i][1], serialize(ipld.map[i][2])>>])
    [] ipld.kind = "Link" ->
         LET value == base64_encode(Cid_to_bytes(ipld.link))
         IN  collect_map(<< <<SPECIAL_KEY, serialize_str(value)>> >>)

\* dag_json::codec::encode: the text is written at the writer's position
dag_json_encode(ipld, writer) == ByteCursor_write(writer, Ipld_serialize(ipld))

(***************************************************************************)
(* serde_json, reading: Deserializer::from_slice and deserialize_any.      *)
(* A parse gives the value and the index after it, or an error.            *)
(***************************************************************************)

OkAt(v, p) == [ok |-> TRUE, val |-> v, pos |-> p]

\* peek_or_null
Peek(t, i) == IF i <= Len(t) THEN t[i] ELSE 0

IsWs(c) == c \in {32, 9, 10, 13}

\* parse_whitespace
SkipWs(t, i) == FirstIn(t, i, {c \in 0..255 : ~IsWs(c)})

Cont(b) == 128 <= b /\ b <= 191

\* core::str::from_utf8 accepts s
RECURSIVE IsUtf8(_)
IsUtf8(s) ==
  IF \A i \in 1..Len(s) : s[i] < 128 THEN TRUE
  ELSE LET b == s[1]
           c(i) == IF i <= Len(s) THEN s[i] ELSE 0
       IN  IF b < 128 THEN IsUtf8(Tail(s))
           ELSE IF 194 <= b /\ b <= 223 THEN Cont(c(2)) /\ IsUtf8(Drop(s, 2))
           ELSE IF 224 <= b /\ b <= 239
           THEN /\ Cont(c(2)) /\ Cont(c(3))
                /\ b = 224 => c(2) >= 160
                /\ b = 237 => c(2) <= 159
                /\ IsUtf8(Drop(s, 3))
           ELSE IF 240 <= b /\ b <= 244
           THEN /\ Cont(c(2)) /\ Cont(c(3)) /\ Cont(c(4))
                /\ b = 240 => c(2) >= 144
                /\ b = 244 => c(2) <= 143
                /\ IsUtf8(Drop(s, 4))
           ELSE FALSE

\* the UTF-8 bytes of a code point
encode_utf8(n) ==
  IF n < 128 THEN <<n>>
  ELSE IF n < 2048 THEN <<192 + n \div 64, 128 + (n % 64)>>
  ELSE IF n < 65536
  THEN <<224 + n \div 4096, 128 + ((n \div 64) % 64), 128 + (n % 64)>>
  ELSE <<240 + n \div 262144, 128 + ((n \div 4096) % 64),
         128 + ((n \div 64) % 64), 128 + (n % 64)>>

HexValue(c) ==
  IF IsDigit(c) THEN c - 48
  ELSE IF 97 <= c /\ c <= 102 THEN c - 87
  ELSE IF 65 <= c /\ c <= 70 THEN c - 55 ELSE -1

\* decode_hex_escape: the four hex digits at i
decode_hex_escape(t, i) ==
  IF i + 3 > Len(t) THEN Err("EofWhileParsingString")
  ELSE IF \E j \in i..(i + 3) : HexValue(t[j]) < 0 THEN Err("InvalidEscape")
  ELSE Ok(4096 * HexValue(t[i]) + 256 * HexValue(t[i + 1])
            + 16 * HexValue(t[i + 2]) + HexValue(t[i + 3]))

\* parse_escape after the backslash: the bytes it stands for
parse_escape(t, i) ==
  LET c == Peek(t, i)
      Low(n1, n2) ==
        IF ~n2.ok THEN n2
        ELSE IF n2.val < 56320 \/ n2.val > 57343
        THEN Err("LoneLeadingSurrogateInHexEscape")
        ELSE OkAt(encode_utf8(65536 + (n1.val - 55296) * 1024
                                + (n2.val - 56320)),
                  i + 11)
      High(n1) ==
        IF ~n1.ok THEN n1
        ELSE IF 56320 <= n1.val /\ n1.val <= 57343
        THEN Err("LoneLeadingSurrogateInHexEscape")
        ELSE IF n1.val < 55296 \/ n1.val > 56319
        THEN OkAt(encode_utf8(n1.val), i + 5)
        ELSE IF i + 5 > Len(t) THEN Err("EofWhileParsingString")
        ELSE IF t[i + 5] # 92 THEN Err("UnexpectedEndOfHexEscape")
        ELSE IF i + 6 > Len(t) THEN Err("EofWhileParsingString")
        ELSE IF t[i + 6] # 117 THEN Err("UnexpectedEndOfHexEscape")
        ELSE Low(n1, decode_hex_escape(t, i + 7))
  IN  IF i > Len(t) THEN Err("EofWhileParsingString")
      ELSE IF c \in {34, 92, 47} THEN OkAt(<<c>>, i + 1)
      ELSE IF c = 98 THEN OkAt(<<8>>, i + 1)
      ELSE IF c = 102 THEN OkAt(<<12>>, i + 1)
      ELSE IF c = 110 THEN OkAt(<<10>>, i + 1)
      ELSE IF c = 114 THEN OkAt(<<13>>, i + 1)
      ELSE IF c = 116 THEN OkAt(<<9>>, i + 1)
      ELSE IF c # 117 THEN Err("InvalidEscape")
      ELSE High(decode_hex_escape(t, i + 1))

\* parse_str after the opening quote: plain characters up to the closing
\* quote, an escape or a control character
RECURSIVE parse_str(_, _, _)
parse_str(t, i, acc) ==
  LET Escaped(all, e) ==
        IF ~e.ok THEN e ELSE parse_str(t, e.pos, all \o e.val)
      Run(j, all) ==
        IF j > Len(t) THEN Err("EofWhileParsingString")
        ELSE IF t[j] = 34
        THEN IF IsUtf8(all) THEN OkAt(all, j + 1)
             ELSE Err("InvalidUnicodeCodePoint")
        ELSE IF t[j] = 92 THEN Escaped(all, parse_escape(t, j + 1))
        ELSE Err("ControlCharacterWhileParsingString")
      Plain(j) == Run(j, acc \o SubSeq(t, i, j - 1))
  IN  Plain(FirstIn(t, i, {34, 92} \cup 0..31))

\* the index after the run of digits that starts at i
DigitsEnd(t, i) == FirstIn(t, i, {c \in 0..255 : ~IsDigit(c)})

DigitsAt(t, i, j) == [k \in 1..(j - i) |-> t[i + k - 1] - 48]

U64_MAX == Rep(255, 8)

I64_MIN_MAG == <<128>> \o Rep(0, 7)

\* a + b: a byte takes a carry when a byte below it overflows and every
\* byte between the two is full
MagAdd(a, b) ==
  LET n == 1 + (IF Len(a) > Len(b) THEN Len(a) ELSE Len(b))
      x(i) == IF i > n - Len(a) THEN a[i - (n - Len(a))] ELSE 0
      y(i) == IF i > n - Len(b) THEN b[i - (n - Len(b))] ELSE 0
      carry(i) == \E j \in (i + 1)..n :
                    /\ x(j) + y(j) >= 256
                    /\ \A k \in (i + 1)..(j - 1) : x(k) + y(k) = 255
  IN  IF a = <<>> THEN b
      ELSE IF b = <<>> THEN a
      ELSE MagNorm([i \in 1..n |->
                      (x(i) + y(i) + (IF carry(i) THEN 1 ELSE 0)) % 256])

\* a - b for a >= b: a byte gives a borrow when a byte below it is short
\* and every byte between the two is level
MagSub(a, b) ==
  LET n == Len(a)
      y(i) == IF i > n - Len(b) THEN b[i - (n - Len(b))] ELSE 0
      borrow(i) == \E j \in (i + 1)..n :
                     /\ a[j] < y(j)
                     /\ \A k \in (i + 1)..(j - 1) : a[k] = y(k)
  IN  IF b = <<>> THEN a
      ELSE MagNorm([i \in 1..n |->
                      (a[i] - y(i) - (IF borrow(i) THEN 1 ELSE 0) + 256) % 256])

\* a * b: a times the high bytes of b, shifted, and a times the low bytes
RECURSIVE MagMul(_, _)
MagMul(a, b) ==
  LET h == Len(b) \div 2
  IN  IF a = <<>> \/ b = <<>> THEN <<>>
      ELSE IF Len(b) = 1 THEN MagNorm(MagMulAdd(a, b[1], 0))
      ELSE MagAdd(MagMul(a, SubSeq(b, 1, h)) \o Rep(0, Len(b) - h),
                  MagMul(a, SubSeq(b, h + 1, Len(b))))

\* the long division of r * 2^n by d, for r < d: n bits of the quotient and
\* the remainder, the first half of the bits and then the second
RECURSIVE MagDivBits(_, _, _)
MagDivBits(r, n, d) ==
  LET Bit(r2) ==
        IF MagLe(d, r2) THEN [q |-> <<1>>, r |-> MagSub(r2, d)]
        ELSE [q |-> <<0>>, r |-> r2]
      Low(high, low) == [q |-> high.q \o low.q, r |-> low.r]
      High(high) == Low(high, MagDivBits(high.r, n - n \div 2, d))
  IN  IF r = <<>> \/ d = <<>> THEN [q |-> Rep(0, n), r |-> <<>>]
      ELSE IF n = 1 THEN Bit(MagAdd(r, r))
      ELSE High(MagDivBits(r, n \div 2, d))

\* the significand of a finite f64 as an integer: x = F64Mant(x) * 2^F64Pow(x)
F64Mant(x) ==
  IF F64Exp(x) = 0 THEN F64Frac(x)
  ELSE MagNorm(<<16 + (x[2] % 16)>> \o Drop(x, 2))

F64Pow(x) == (IF F64Exp(x) = 0 THEN 1 ELSE F64Exp(x)) - 1075

\* x * y in IEEE-754 double arithmetic, for finite x, y >= 0: the product
\* rounded once, to nearest, ties to even
f64_mul(x, y) ==
  IF is_zero(x) \/ is_zero(y) THEN F64Zero(FALSE)
  ELSE f64_pack(FALSE, StripZeroBits(BitsOf(MagMul(F64Mant(x), F64Mant(y)))),
                FALSE, 0 - (F64Pow(x) + F64Pow(y)))

\* x / y in IEEE-754 double arithmetic, for finite x, y >= 0: the quotient
\* rounded once, to nearest, ties to even; 0 / 0 is the NaN with the sign bit
\* set (fff8000000000000).  Both significands are brought to 53 bits, n[1]
\* and n[2], then the 58 bits of n[1] * 2^57 / n[2] are drawn
f64_div(x, y) ==
  LET Quot(z, dm) ==
        f64_pack(FALSE, StripZeroBits(dm.q), dm.r # <<>>,
                 57 + z[1] - F64Pow(x) - (z[2] - F64Pow(y)))
      Norm(n, z) == Quot(z, MagDivBits(n[1], 58, MagMulAdd(n[2], 2, 0)))
      Shift(m, z) == Norm([i \in 1..2 |-> MagTimesPow(m[i], 2, z[i])], z)
      Args(m) ==
        Shift(m, [i \in 1..2 |-> 53 - Len(StripZeroBits(BitsOf(m[i])))])
  IN  IF is_zero(y)
      THEN (IF is_zero(x) THEN [F64NaN EXCEPT ![1] = 255] ELSE F64Inf(FALSE))
      ELSE IF is_zero(x) THEN F64Zero(FALSE)
      ELSE Args([i \in 1..2 |-> F64Mant(IF i = 1 THEN x ELSE y)])

\* the table POW10 of the Deserializer: the f64 literals 1e0 .. 1e308
POW10(k) == f64_from_decimal(FALSE, <<1>>, k)

\* Deserializer::f64_from_parts: the significand as an f64, then one
\* multiplication or division by a power of ten of the table; an exponent
\* beyond the table (309 stands for every index past it, the wrapping_abs
\* of i32::MIN among them) divides by 1e308 first.  The result is not always the f64
\* nearest to the decimal
RECURSIVE f64_from_parts_loop(_, _, _)
f64_from_parts_loop(positive, f, exponent) ==
  LET Signed(g) == Ok(IF positive THEN g ELSE [g EXCEPT ![1] = @ + 128])
      Scaled(abs, g) ==
        CASE abs > 308 /\ is_zero(f) -> Signed(f)
          [] abs > 308 /\ ~is_zero(f) /\ exponent >= 0 ->
               Err("NumberOutOfRange")
          [] abs > 308 /\ ~is_zero(f) /\ exponent < 0 ->
               f64_from_parts_loop(positive, g, exponent + 308)
          [] abs <= 308 /\ exponent >= 0 /\ is_infinite(g) ->
               Err("NumberOutOfRange")
          [] OTHER -> Signed(g)
      Times(abs, pw) ==
        Scaled(abs, IF exponent >= 0 THEN f64_mul(f, pw) ELSE f64_div(f, pw))
      Step(abs) == Times(abs, POW10(IF abs <= 308 THEN abs ELSE 308))
  IN  Step(IF exponent < -308 \/ exponent > 308 THEN 309
           ELSE IF exponent < 0 THEN 0 - exponent ELSE exponent)

\* significand as f64
u64_as_f64(significand) ==
  f64_pack(FALSE, StripZeroBits(BitsOf(significand)), FALSE, 0)

f64_from_parts(positive, significand, exponent) ==
  f64_from_parts_loop(positive, u64_as_f64(significand), exponent)

\* parse_exponent: the exponent of a number after its 'e', an optional sign
\* and digits, added to starting_exp or taken from it, the sum kept within
\* an i32 (saturating_add, saturating_sub).  Digits whose value passes
\* i32::MAX (parse_exponent_overflow) are out of range when the significand
\* is not zero and the exponent is positive, and make the number a zero
\* otherwise
parse_exponent(t, i, starting_exp, zero_significand) ==
  LET I32_MAX == 2147483647
      positive_exp == Peek(t, i) # 45
      from == IF Peek(t, i) \in {43, 45} THEN i + 1 ELSE i
      Final(exp) ==
        IF positive_exp
        THEN (IF starting_exp > 0 /\ exp > I32_MAX - starting_exp
              THEN I32_MAX ELSE starting_exp + exp)
        ELSE (IF starting_exp < 0 /\ exp > (I32_MAX + starting_exp) + 1
              THEN (0 - I32_MAX) - 1 ELSE starting_exp - exp)
      Value(to, run) ==
        IF from > Len(t) THEN Err("EofWhileParsingValue")
        ELSE IF to = from THEN Err("InvalidNumber")
        ELSE IF \/ Len(run) > 10
                \/ Len(run) = 10 /\ ~MagLe(DigitsToMag(run), MagOfNat(I32_MAX))
        THEN (IF ~zero_significand /\ positive_exp
              THEN Err("NumberOutOfRange") ELSE OkAt([zero |-> TRUE], to))
        ELSE OkAt([exp |-> Final(DigitsToNat(run))], to)
      Run(to) == Value(to, StripLeadingZeros(DigitsAt(t, from, to)))
  IN  Run(DigitsEnd(t, from))

\* how many of the digits of run the significand takes after the digits sig
\* it has: a digit that would carry it past u64::MAX is not taken, nor any
\* after it
DigitsTaken(sig, run) ==
  LET Fits(ds) == Len(ds) < 20 \/ (Len(ds) = 20 /\ MagLe(DigitsToMag(ds), U64_MAX))
      fit == {n \in 0..Len(run) : Fits(StripLeadingZeros(sig \o Take(run, n)))}
  IN  CHOOSE n \in fit : \A m \in fit : m <= n

\* parse_integer, parse_number, parse_long_integer, parse_decimal,
\* parse_decimal_overflow and parse_exponent: the number that starts at i,
\* after the minus sign if there is one.  The significand is kept in a u64;
\* integer digits it cannot take raise the exponent, fraction digits it
\* cannot take are dropped
parse_number(t, i, positive) ==
  LET Float64(f, pos) == IF f.ok THEN OkAt([f64 |-> f.val], pos) ELSE f
      Integer64(mag, to) ==
        IF positive THEN OkAt([u64 |-> mag], to)
        ELSE IF mag = <<>> \/ ~MagLe(mag, I64_MIN_MAG)
        THEN OkAt([f64 |-> [u64_as_f64(mag) EXCEPT ![1] = @ + 128]], to)
        ELSE OkAt([i64 |-> mag], to)
      Parts(m, ex) ==
        IF ex.ok
        THEN (IF "zero" \in DOMAIN ex.val
              THEN OkAt([f64 |-> F64Zero(~positive)], ex.pos)
              ELSE Float64(f64_from_parts(positive, DigitsToMag(m.sig),
                                          ex.val.exp), ex.pos))
        ELSE ex
      Exponent(m) ==
        CASE ~m.ok -> m
          [] m.ok /\ ~m.float -> Integer64(DigitsToMag(m.sig), m.pos)
          [] m.ok /\ m.float ->
               Parts(m, IF Peek(t, m.pos) \in {101, 69}
                        THEN parse_exponent(t, m.pos + 1, m.exponent,
                                            \A k \in 1..Len(m.sig) :
                                               m.sig[k] = 0)
                        ELSE OkAt([exp |-> m.exponent], m.pos))
      Decimal(sig, before, fto, run, n) ==
        IF run = <<>>
        THEN (IF fto > Len(t) THEN Err("EofWhileParsingValue")
              ELSE Err("InvalidNumber"))
        ELSE [ok |-> TRUE, float |-> TRUE, sig |-> sig \o Take(run, n),
              exponent |-> before - n, pos |-> fto]
      Fraction(sig, before, from, fto) ==
        Decimal(sig, before, fto, DigitsAt(t, from, fto),
                DigitsTaken(sig, DigitsAt(t, from, fto)))
      Number(to, sig, before) ==
        IF i > Len(t) THEN Err("EofWhileParsingValue")
        ELSE IF to = i THEN Err("InvalidNumber")
        ELSE IF t[i] = 48 /\ to > i + 1 THEN Err("InvalidNumber")
        ELSE IF Peek(t, to) = 46
        THEN Fraction(sig, before, to + 1, DigitsEnd(t, to + 1))
        ELSE [ok |-> TRUE, sig |-> sig, exponent |-> before, pos |-> to,
              float |-> Peek(t, to) \in {101, 69} \/ before > 0]
      Integral(to, run, n) == Exponent(Number(to, Take(run, n), Len(run) - n))
      Run(to, run) == Integral(to, run, DigitsTaken(<<>>, run))
      Digits(to) == Run(to, DigitsAt(t, i, to))
  IN  Digits(DigitsEnd(t, i))

\* parse_ident: the rest of a literal, compared letter by letter: a wrong
\* letter is reported where it stands, the end of the text where a letter
\* is due
parse_ident(t, i, ident, v) ==
  IF \E k \in 1..Len(ident) : i + k - 1 <= Len(t) /\ t[i + k - 1] # ident[k]
  THEN Err("ExpectedSomeIdent")
  ELSE IF i + Len(ident) - 1 > Len(t) THEN Err("EofWhileParsingValue")
  ELSE OkAt(v, i + Len(ident))

(***************************************************************************)
(* DAG-JSON, reading: JsonVisitor                                          *)
(***************************************************************************)

visit_unit == Null

visit_bool(v) == Bool(v)

visit_u64(v) == Integer(FALSE, v)

\* v is the magnitude of a negative i64
visit_i64(v) == Integer(TRUE, v)

visit_f64(v) == Float(v)

visit_str(value) == String(value)

visit_seq(vec) == List(vec)

\* the BTreeMap collected from entries: the keys ascending, the last entry
\* of a key kept
BTreeMap_collect(entries) ==
  LET keys == {entries[i][1] : i \in 1..Len(entries)}
      rank(k) == Cardinality({j \in keys : BytesLt(j, k)}) + 1
      last(k) == CHOOSE i \in 1..Len(entries) :
                   /\ entries[i][1] = k
                   /\ \A j \in (i + 1)..Len(entries) : entries[j][1] # k
  IN  [r \in 1..Cardinality(keys) |->
         LET k == CHOOSE j \in keys : rank(j) = r
         IN  <<k, entries[last(k)][2]>>]

\* visit_map over the entries of an object, in the order of the text
visit_map(vals) ==
  LET FromCid(cid) == IF ~cid.ok THEN cid ELSE Ok(Link(cid.val))
      FromLink(link) ==
        IF ~link.ok THEN link ELSE FromCid(Cid_try_from(link.val))
      FromBytes(bytes) == IF ~bytes.ok THEN bytes ELSE Ok(Bytes(bytes.val))
  IN  IF /\ vals # <<>>
         /\ vals[1][2].kind = "String"
         /\ vals[1][1] = SPECIAL_KEY
         /\ Len(vals) = 1
      THEN FromLink(base64_decode(vals[1][2].string))
      ELSE IF /\ vals # <<>>
              /\ vals[1][2].kind = "StringMap"
              /\ vals[1][2].map # <<>>
              /\ vals[1][2].map[1][2].kind = "String"
              /\ vals[1][1] = SPECIAL_KEY
              /\ vals[1][2].map[1][1] = BytesKey
              /\ Len(vals) = 1
      THEN FromBytes(base64_decode(vals[1][2].map[1][2].string))
      ELSE Ok(StringMap(BTreeMap_collect(vals)))

\* the nesting of arrays and objects the Deserializer allows: the level
\* that would bring remaining_depth to zero is refused
RECURSION_LIMIT == 128

RECURSIVE parse_value(_, _, _)
RECURSIVE parse_seq(_, _, _, _)
RECURSIVE parse_map(_, _, _, _)

\* SeqAccess: the elements of an array from i, after the '[' when acc is
\* empty and after a ',' otherwise; d is the remaining depth
parse_seq(t, i, acc, d) ==
  LET After(e, j) ==
        LET k == SkipWs(t, j + 1)
        IN  IF j > Len(t) THEN Err("EofWhileParsingList")
            ELSE IF t[j] = 93 THEN OkAt(Append(acc, e.val), j + 1)
            ELSE IF t[j] # 44 THEN Err("ExpectedListCommaOrEnd")
            ELSE IF Peek(t, k) = 93 THEN Err("TrailingComma")
            ELSE parse_seq(t, k, Append(acc, e.val), d)
      Element(e) == IF ~e.ok THEN e ELSE After(e, SkipWs(t, e.pos))
  IN  IF acc = <<>> /\ i > Len(t) THEN Err("EofWhileParsingList")
      ELSE IF acc = <<>> /\ t[i] = 93 THEN OkAt(<<>>, i + 1)
      ELSE Element(parse_value(t, i, d))

\* MapAccess: the entries of an object from i, after the '{' when acc is
\* empty and after a ',' otherwise; d is the remaining depth
parse_map(t, i, acc, d) ==
  LET After(all, j) ==
        LET k == SkipWs(t, j + 1)
        IN  IF j > Len(t) THEN Err("EofWhileParsingObject")
            ELSE IF t[j] = 125 THEN OkAt(all, j + 1)
            ELSE IF t[j] # 44 THEN Err("ExpectedObjectCommaOrEnd")
            ELSE IF Peek(t, k) = 125 THEN Err("TrailingComma")
            ELSE parse_map(t, k, all, d)
      Value(key, e) ==
        IF ~e.ok THEN e
        ELSE After(Append(acc, <<key.val, e.val>>), SkipWs(t, e.pos))
      Colon(key, c) ==
        IF c > Len(t) THEN Err("EofWhileParsingObject")
        ELSE IF t[c] # 58 THEN Err("ExpectedColon")
        ELSE Value(key, parse_value(t, c + 1, d))
      Key(key) == IF ~key.ok THEN key ELSE Colon(key, SkipWs(t, key.pos))
  IN  IF i > Len(t)
      THEN Err(IF acc = <<>> THEN "EofWhileParsingObject"
               ELSE "EofWhileParsingValue")
      ELSE IF acc = <<>> /\ t[i] = 125 THEN OkAt(<<>>, i + 1)
      ELSE IF t[i] # 34 THEN Err("KeyMustBeAString")
      ELSE Key(parse_str(t, i + 1, <<>>))

\* Deserializer::deserialize_any(JsonVisitor): the value that starts at or
\* after i, with d levels of nesting left
parse_value(t, i, d) ==
  LET Number(n) ==
        IF n.ok
        THEN (IF "u64" \in DOMAIN n.val THEN OkAt(visit_u64(n.val.u64), n.pos)
              ELSE IF "i64" \in DOMAIN n.val
              THEN OkAt(visit_i64(n.val.i64), n.pos)
              ELSE OkAt(visit_f64(n.val.f64), n.pos))
        ELSE n
      Text(s) == IF s.ok THEN OkAt(visit_str(s.val), s.pos) ELSE s
      Array(vec) == IF vec.ok THEN OkAt(visit_seq(vec.val), vec.pos) ELSE vec
      Visited(v, pos) == IF v.ok THEN OkAt(v.val, pos) ELSE v
      Object(vals) ==
        IF vals.ok THEN Visited(visit_map(vals.val), vals.pos) ELSE vals
      At(p, c) ==
        LET q == SkipWs(t, p + 1)
        IN  CASE p > Len(t) -> Err("EofWhileParsingValue")
              [] c = 110 ->
                   parse_ident(t, p + 1, Lit(<<"u", "l", "l">>), visit_unit)
              [] c = 116 ->
                   parse_ident(t, p + 1, Lit(<<"r", "u", "e">>),
                               visit_bool(TRUE))
              [] c = 102 ->
                   parse_ident(t, p + 1, Lit(<<"a", "l", "s", "e">>),
                               visit_bool(FALSE))
              [] c = 45 \/ IsDigit(c) ->
                   Number(parse_number(t, IF c = 45 THEN p + 1 ELSE p, c # 45))
              [] c = 34 -> Text(parse_str(t, p + 1, <<>>))
              [] c \in {91, 123} /\ d - 1 = 0 ->
                   Err("RecursionLimitExceeded")
              [] c = 91 /\ d - 1 # 0 -> Array(parse_seq(t, q, <<>>, d - 1))
              [] c = 123 /\ d - 1 # 0 -> Object(parse_map(t, q, <<>>, d - 1))
              [] OTHER -> Err("ExpectedSomeValue")
      Start(p) == At(p, Peek(t, p))
  IN  Start(SkipWs(t, i))

\* fn deserialize: one value, whatever follows it; a panic inside the
\* visitor unwinds through the call
deserialize(t) ==
  LET Value(v) ==
        IF v.ok THEN Ok(v.val)
        ELSE IF "panic" \in DOMAIN v THEN Panic
        ELSE Err(v.err)
  IN  Value(parse_value(t, 1, RECURSION_LIMIT))

\* a slip: the text is taken from the reader's position on
dag_json_decode_at_position(r) == deserialize(Drop(r.inner, r.pos))

\* dag_json::codec::decode: the whole buffer of the reader is the text,
\* whatever its position, which stays
dag_json_decode(r) == deserialize(r.inner)

\* from_dag_json_string: the bytes of the string in a new cursor, decoded; an
\* error is returned as its text
from_dag_json_string(s) ==
  LET Mapped(r) == IF r.ok \/ r = Panic THEN r ELSE Err(r.err)
  IN  Mapped(dag_json_decode(ByteCursor_new(s)))

(***************************************************************************)
(* DAG-CBOR: deterministic CBOR, the smallest head for every integer and   *)
(* length, definite lengths only.                                          *)
(***************************************************************************)

PadTo(m, w) == Rep(0, w - Len(m)) \o m

\* the head of a data item: the major type and its argument n
cbor_head(major, n) ==
  IF MagLt(n, <<24>>) THEN <<major * 32 + MagToNat(n)>>
  ELSE IF Len(n) <= 1 THEN <<major * 32 + 24>> \o n
  ELSE IF Len(n) <= 2 THEN <<major * 32 + 25>> \o n
  ELSE IF Len(n) <= 4 THEN <<major * 32 + 26>> \o PadTo(n, 4)
  ELSE <<major * 32 + 27>> \o PadTo(n, 8)

cbor_str(s) == cbor_head(3, MagOfNat(Len(s))) \o s

\* the entries of a map in ascending byte order of their keys, the UTF-8
\* bytes of the key compared and not its length first: a, b, ba, c
SortByEncodedKey(m) ==
  LET rank(i) == Cardinality({j \in 1..Len(m) :
                    BytesLt(m[j][1], m[i][1])}) + 1
  IN  [r \in 1..Len(m) |-> m[CHOOSE i \in 1..Len(m) : rank(i) = r]]

\* the first error of a sequence of results, or their values joined
Collect(rs) ==
  IF \E i \in 1..Len(rs) : ~rs[i].ok
  THEN rs[CHOOSE i \in 1..Len(rs) :
            ~rs[i].ok /\ \A j \in 1..(i - 1) : rs[j].ok]
  ELSE Ok(Concat([i \in 1..Len(rs) |-> rs[i].val]))

\* the encoding of a value, or the error of an integer out of range
RECURSIVE cbor_encode(_)
cbor_encode(ipld) ==
  LET Arg(n) ==
        IF ~MagLe(n, U64_MAX) THEN Err("NumberOutOfRange")
        ELSE Ok(cbor_head(IF ipld.int.neg THEN 1 ELSE 0, n))
      Items(major, len, items) ==
        IF ~items.ok THEN items
        ELSE Ok(cbor_head(major, MagOfNat(len)) \o items.val)
      Entry(key, v) == IF v.ok THEN Ok(cbor_str(key) \o v.val) ELSE v
      Entries(es) ==
        Items(5, Len(es),
              Collect([i \in 1..Len(es) |->
                         Entry(es[i][1], cbor_encode(es[i][2]))]))
      Tagged(payload) ==
        Ok(<<216, 42>> \o cbor_head(2, MagOfNat(Len(payload))) \o payload)
  IN  CASE ipld.kind = "Null" -> Ok(<<246>>)
        [] ipld.kind = "Bool" -> Ok(IF ipld.bool THEN <<245>> ELSE <<244>>)
        [] ipld.kind = "Integer" ->
             Arg(IF ipld.int.neg THEN MagDec(ipld.int.mag) ELSE ipld.int.mag)
        [] ipld.kind = "Float" -> Ok(<<251>> \o ipld.f64)
        [] ipld.kind = "String" -> Ok(cbor_str(ipld.string))
        [] ipld.kind = "Bytes" ->
             Ok(cbor_head(2, MagOfNat(Len(ipld.bytes))) \o ipld.bytes)
        [] ipld.kind = "List" ->
             Items(4, Len(ipld.list),
                   Collect([i \in 1..Len(ipld.list) |->
                              cbor_encode(ipld.list[i])]))
        [] ipld.kind = "StringMap" -> Entries(SortByEncodedKey(ipld.map))
        [] ipld.kind = "Link" -> Tagged(<<0>> \o Cid_to_bytes(ipld.link))

\* Encode<DagCborCodec> for Ipld: the encoding is written at the writer's
\* position
dag_cbor_encode(ipld, w) ==
  LET Written(e) ==
        IF e.ok THEN [ok |-> TRUE, cur |-> ByteCursor_write(w, e.val)]
        ELSE [ok |-> FALSE, err |-> e.err, cur |-> w]
  IN  Written(cbor_encode(ipld))

\* the head at index i: the major type, the additional information and the
\* argument, refused when a shorter head holds the argument
cbor_read_head(t, i) ==
  LET major == t[i] \div 32
      info  == t[i] % 32
      w     == IF info = 24 THEN 1 ELSE IF info = 25 THEN 2
               ELSE IF info = 26 THEN 4 ELSE 8
      arg   == MagNorm(SubSeq(t, i + 1, i + w))
  IN  IF i > Len(t) THEN Err("UnexpectedEof")
      ELSE IF info < 24
      THEN [ok |-> TRUE, major |-> major, info |-> info,
            arg |-> MagOfNat(info), pos |-> i + 1]
      ELSE IF info > 27 THEN Err("UnexpectedCode")
      ELSE IF i + w > Len(t) THEN Err("UnexpectedEof")
      ELSE IF major # 7 /\ (IF w = 1 THEN MagLt(arg, <<24>>)
                            ELSE Len(arg) <= w \div 2)
      THEN Err("NonCanonical")
      ELSE [ok |-> TRUE, major |-> major, info |-> info, arg |-> arg,
            pos |-> i + w + 1]

\* whether len bytes are left from index i on
HasBytes(t, i, len) == Len(len) <= 2 /\ i + MagToNat(len) - 1 <= Len(t)

RECURSIVE cbor_decode_at(_, _)
RECURSIVE cbor_decode_list(_, _, _, _)
RECURSIVE cbor_decode_map(_, _, _, _)

\* n more elements of a list from index i
cbor_decode_list(t, i, n, acc) ==
  LET Element(e) ==
        IF ~e.ok THEN e
        ELSE cbor_decode_list(t, e.pos, MagDec(n), Append(acc, e.val))
  IN  IF n = <<>> THEN OkAt(acc, i) ELSE Element(cbor_decode_at(t, i))

\* n more entries of a map from index i.  The decoder is strict: a key that
\* is there already is a duplicate, and a key that does not come after the
\* key before it in byte order is not the canonical form
cbor_decode_map(t, i, n, acc) ==
  LET Value(key, e) ==
        IF ~IsUtf8(key) THEN Err("InvalidUtf8")
        ELSE IF \E k \in 1..Len(acc) : acc[k][1] = key
        THEN Err("DuplicateKey")
        ELSE IF acc # <<>> /\ ~BytesLt(acc[Len(acc)][1], key)
        THEN Err("NonCanonical")
        ELSE IF ~e.ok THEN e
        ELSE cbor_decode_map(t, e.pos, MagDec(n), Append(acc, <<key, e.val>>))
      Key(h) ==
        IF ~h.ok THEN h
        ELSE IF h.major # 3 THEN Err("UnexpectedCode")
        ELSE IF ~HasBytes(t, h.pos, h.arg) THEN Err("UnexpectedEof")
        ELSE Value(SubSeq(t, h.pos, h.pos + MagToNat(h.arg) - 1),
                   cbor_decode_at(t, h.pos + MagToNat(h.arg)))
  IN  IF n = <<>> THEN OkAt(acc, i) ELSE Key(cbor_read_head(t, i))

\* the value that starts at index i
cbor_decode_at(t, i) ==
  LET Run(h, len, s) ==
        IF h.major = 2 THEN OkAt(Bytes(s), h.pos + len)
        ELSE IF IsUtf8(s) THEN OkAt(String(s), h.pos + len)
        ELSE Err("InvalidUtf8")
      Array(xs) == IF ~xs.ok THEN xs ELSE OkAt(List(xs.val), xs.pos)
      Object(es) ==
        IF ~es.ok THEN es
        ELSE OkAt(StringMap(BTreeMap_collect(es.val)), es.pos)
      FromCid(cid, pos) == IF ~cid.ok THEN cid ELSE OkAt(Link(cid.val), pos)
      Tagged(h, b) ==
        IF h.arg # <<42>> THEN Err("UnknownTag")
        ELSE IF ~b.ok THEN b
        ELSE IF b.major # 2 THEN Err("UnexpectedCode")
        ELSE IF ~HasBytes(t, b.pos, b.arg) THEN Err("UnexpectedEof")
        ELSE IF b.arg = <<>> \/ t[b.pos] # 0 THEN Err("InvalidCidPrefix")
        ELSE FromCid(Cid_try_from(SubSeq(t, b.pos + 1,
                                         b.pos + MagToNat(b.arg) - 1)),
                     b.pos + MagToNat(b.arg))
      Item(h) ==
        IF ~h.ok THEN h
        ELSE IF h.major = 0 THEN OkAt(Integer(FALSE, h.arg), h.pos)
        ELSE IF h.major = 1 THEN OkAt(Integer(TRUE, MagInc(h.arg)), h.pos)
        ELSE IF h.major \in {2, 3}
        THEN IF ~HasBytes(t, h.pos, h.arg) THEN Err("UnexpectedEof")
             ELSE Run(h, MagToNat(h.arg),
                      SubSeq(t, h.pos, h.pos + MagToNat(h.arg) - 1))
        ELSE IF h.major = 4 THEN Array(cbor_decode_list(t, h.pos, h.arg, <<>>))
        ELSE IF h.major = 5 THEN Object(cbor_decode_map(t, h.pos, h.arg, <<>>))
        ELSE IF h.major = 6 THEN Tagged(h, cbor_read_head(t, h.pos))
        ELSE IF h.info = 20 THEN OkAt(Bool(FALSE), h.pos)
        ELSE IF h.info = 21 THEN OkAt(Bool(TRUE), h.pos)
        ELSE IF h.info = 22 THEN OkAt(Null, h.pos)
        ELSE IF h.info = 27 THEN OkAt(Float(SubSeq(t, i + 1, i + 8)), h.pos)
        ELSE Err("UnexpectedCode")
  IN  Item(cbor_read_head(t, i))

\* Decode<DagCborCodec> for Ipld: one value from the reader's position to the
\* end of its buffer
dag_cbor_decode(r) ==
  LET Value(v) ==
        IF "panic" \in DOMAIN v THEN Panic
        ELSE IF ~v.ok THEN Err(v.err)
        ELSE IF v.pos <= Len(r.inner) - r.pos THEN Err("TrailingBytes")
        ELSE Ok(v.val)
  IN  Value(cbor_decode_at(Drop(r.inner, r.pos), 1))

(***************************************************************************)
(* SpecMh: a multihash is built by wrap or by the scale-codec decoder,     *)
(* then written to and read from a cursor                                  *)
(***************************************************************************)

MaxOps == 3

MaxSeek == 2

PrefillLen == 4

MhCodes == {<<>>, <<18>>, <<178, 32>>, Rep(255, 8)}

MhDigests ==
  {<<>>, <<1>>, <<255, 0>>, <<0, 128, 7>>, Rep(7, 32), Rep(255, S), Rep(1, S + 1)}

MhBuffers == {<<>>, Rep(170, PrefillLen), Rep(0, S + PrefillLen)}

\* parity_scale_codec::Decode for u64: 8 bytes, least significant first
scale_u64(b) == MagNorm([i \in 1..8 |-> b[9 - i]])

\* parity_scale_codec::Decode for Multihash<U64>: the code, the size and the
\* S bytes of the digest array are taken from the input as they are
Multihash_decode(input) ==
  IF Len(input) < 9 + S THEN Err("scale")
  ELSE Ok([code   |-> scale_u64(SubSeq(input, 1, 8)),
           size   |-> input[9],
           digest |-> SubSeq(input, 10, 9 + S)])

\* derive(PartialEq, Eq) for Multihash: the fields, one by one
Multihash_eq(a, b) == a.code = b.code /\ a.size = b.size /\ a.digest = b.digest

\* impl Hash for Multihash: what is fed to the hasher (a slice is fed with
\* its length before its bytes)
Multihash_hash(mh) == <<mh.code, Len(digest(mh)), digest(mh)>>

\* scale encodings: wrap(0x12, [255, 0]) as the encoder writes it, the same
\* with other bytes in the unused tail of the digest array, and a short input
ScaleInputs ==
  {<<18>> \o Rep(0, 7) \o <<2, 255, 0>> \o Rep(0, S - 2),
   <<18>> \o Rep(0, 7) \o <<2, 255, 0>> \o Rep(9, S - 2),
   Rep(0, 9)}

IdleMh ==
  /\ hash = NoResult
  /\ cur = ByteCursor_new(<<>>)
  /\ rd = NoResult
  /\ ops = <<>>

IdleIter ==
  /\ root = Null
  /\ stack = <<>>
  /\ yielded = <<>>
  /\ nones = 0
  /\ set0 = <<>>
  /\ refs = NoResult

IdleCodec ==
  /\ dag = Null
  /\ bc = ByteCursor_new(<<>>)
  /\ dec = NoResult
  /\ clog = <<>>
  /\ cids = [json |-> NoResult, cbor |-> NoResult]

InitMh ==
  /\ hash \in {wrap(c, d) : c \in MhCodes, d \in MhDigests}
              \cup {Multihash_decode(i) : i \in ScaleInputs}
  /\ cur \in {ByteCursor_new(b) : b \in MhBuffers}
  /\ rd = NoResult
  /\ ops = <<>>
  /\ IdleIter
  /\ IdleCodec

MhWrite ==
  /\ Len(ops) < MaxOps
  /\ hash.ok
  /\ cur' = Multihash_write(hash.val, cur).cur
  /\ ops' = Append(ops, [op |-> "write", at |-> cur.pos])
  /\ UNCHANGED <<hash, rd>>
  /\ UNCHANGED varsIter
  /\ UNCHANGED varsCodec

MhRead ==
  /\ Len(ops) < MaxOps
  /\ LET r == Multihash_read(cur)
     IN  /\ rd' = IF r.ok THEN Ok(r.val) ELSE Err(r.err)
         /\ cur' = r.cur
  /\ ops' = Append(ops, [op |-> "read", at |-> cur.pos])
  /\ UNCHANGED hash
  /\ UNCHANGED varsIter
  /\ UNCHANGED varsCodec

MhSeek ==
  /\ Len(ops) < MaxOps
  /\ \E p \in 0..MaxSeek :
       /\ p # cur.pos
       /\ cur' = set_position(cur, p)
       /\ ops' = Append(ops, [op |-> "seek", at |-> p])
  /\ UNCHANGED <<hash, rd>>
  /\ UNCHANGED varsIter
  /\ UNCHANGED varsCodec

NextMh == MhWrite \/ MhRead \/ MhSeek

SpecMh == InitMh /\ [][NextMh]_vars

\* the wire form of a multihash
MhWire(mh) ==
  varint_encode_u64(mh.code) \o varint_encode_u8(mh.size) \o digest(mh)

\* the last operation is a read at position 0 and the latest write before it
\* began at position 0
ReadAt0AfterWriteAt0 ==
  /\ ops # <<>>
  /\ ops[Len(ops)] = [op |-> "read", at |-> 0]
  /\ \E i \in 1..(Len(ops) - 1) :
       /\ ops[i] = [op |-> "write", at |-> 0]
       /\ \A j \in (i + 1)..(Len(ops) - 1) : ops[j].op = "seek"

\* C10: every multihash with size <= S, built by wrap or by the scale
\* decoder, written at position 0 puts varint(code), varint(size) and
\* digest[..size] at the start of the buffer, and a read from position 0 of
\* that buffer returns a multihash equal (==) to the one written, whatever
\* bytes the buffer holds after it.
C10_WriteReadRoundTrip ==
  /\ (ops # <<>> /\ ops[Len(ops)] = [op |-> "write", at |-> 0])
       => IsPrefix(MhWire(hash.val), cur.inner)
  /\ (ReadAt0AfterWriteAt0 /\ hash.val.size <= S)
       => (rd.ok /\ Multihash_eq(rd.val, hash.val))

\* the last operation is a write, and so is the one before it
WriteAfterWrite ==
  /\ Len(ops) >= 2
  /\ ops[Len(ops)].op = "write"
  /\ ops[Len(ops) - 1].op = "write"

\* C24: a write at position p puts the bytes of the multihash at p and leaves
\* the position at 0, so a write that follows another without a seek starts at
\* offset 0 and overwrites what is there, the rest of the buffer staying.
C24_WriteRewinds ==
  LET Wire == MhWire(hash.val)
      Written(p) ==
        /\ cur.pos = 0
        /\ SubSeq(cur.inner, p + 1, p + Len(Wire)) = Wire
  IN  /\ (ops # <<>> /\ ops[Len(ops)].op = "write") => Written(ops[Len(ops)].at)
      /\ WriteAfterWrite =>
            /\ ops[Len(ops)].at = 0
            /\ IsPrefix(Wire, cur.inner)
            /\ Len(cur.inner) >= ops[Len(ops) - 1].at + Len(Wire)

\* a multihash was written at position 2 and then written again
C24_Witness ==
  /\ WriteAfterWrite
  /\ ops[Len(ops) - 1].at = 2
  /\ hash.val.size > 0
  /\ cur.pos = 0

(***************************************************************************)
(* SpecParse: byte slices are parsed by from_bytes, read, read_u64 and     *)
(* sp-cid's varint_read_u64, next to a multihash built by wrap or by the   *)
(* scale-codec decoder                                                     *)
(***************************************************************************)

\* Multihash::from_bytes
Multihash_from_bytes(bytes) ==
  LET Checked(r) ==
        IF ~r.ok THEN Err("Varint(Overflow)")
        ELSE IF Len(bytes) >= r.cur.pos + 1 THEN Err("InvalidSize")
        ELSE Ok(r.val)
  IN  Checked(Multihash_read(ByteCursor_new(bytes)))

ParseCodes == {<<18>>, Rep(255, 8)}

ParseDigests == {<<>>, <<255, 0>>, Rep(255, S), Rep(1, S + 1)}

\* byte slices: multihashes of exact length, with bytes after them, cut
\* short, with a size above S and above 255, and varints that are not
\* minimal, not terminated or wider than 64 bits
ParseInputs ==
  {<<>>,
   <<0, 0>>,
   <<18, 2, 255, 0>>,
   <<18, 2, 255, 0, 9>>,
   <<18, 2, 255>>,
   <<18>>,
   <<18, S + 1>> \o Rep(1, S + 1),
   <<18, 128, 2>> \o Rep(1, 256),
   <<128, 0, 1, 7>>,
   <<172, 2, 1, 7>>,
   Rep(255, 9) \o <<1, 1, 7>>,
   Rep(255, 9) \o <<127, 1, 7>>,
   Rep(128, 10) \o <<1, 1, 7>>,
   <<5>> \o Rep(0, 9),
   <<0, 172, 2>> \o Rep(0, 8)}

InitParse ==
  /\ hash \in {wrap(c, d) : c \in ParseCodes, d \in ParseDigests}
              \cup {Multihash_decode(i) : i \in ScaleInputs}
  /\ cur \in {ByteCursor_new(b) : b \in ParseInputs}
  /\ rd = NoResult
  /\ ops = <<>>
  /\ IdleIter
  /\ IdleCodec

\* a call that panicked ends the run
Running == Len(ops) < MaxOps /\ rd # Panic

ParseToBytes ==
  /\ Running
  /\ hash.ok
  /\ cur' = ByteCursor_new(Multihash_to_bytes(hash.val))
  /\ ops' = Append(ops, [op |-> "to_bytes", at |-> 0])
  /\ UNCHANGED <<hash, rd>>
  /\ UNCHANGED varsIter
  /\ UNCHANGED varsCodec

ParseFromBytes ==
  /\ Running
  /\ rd' = Multihash_from_bytes(cur.inner)
  /\ ops' = Append(ops, [op |-> "from_bytes", at |-> cur.pos])
  /\ UNCHANGED <<hash, cur>>
  /\ UNCHANGED varsIter
  /\ UNCHANGED varsCodec

ParseRead ==
  /\ Running
  /\ LET r == Multihash_read(cur)
     IN  /\ rd' = IF r.ok THEN Ok(r.val) ELSE Err(r.err)
         /\ cur' = r.cur
  /\ ops' = Append(ops, [op |-> "read", at |-> cur.pos])
  /\ UNCHANGED hash
  /\ UNCHANGED varsIter
  /\ UNCHANGED varsCodec

ParseReadU64 ==
  /\ Running
  /\ LET r == read_u64(cur)
     IN  /\ rd' = IF r.ok THEN Ok(r.val) ELSE Err(r.err)
         /\ cur' = r.cur
  /\ ops' = Append(ops, [op |-> "read_u64", at |-> cur.pos])
  /\ UNCHANGED hash
  /\ UNCHANGED varsIter
  /\ UNCHANGED varsCodec

ParseVarintReadU64 ==
  /\ Running
  /\ LET r == varint_read_u64(cur)
     IN  /\ rd' = IF r.ok THEN Ok(r.val)
                  ELSE IF "panic" \in DOMAIN r THEN Panic
                  ELSE Err(r.err)
         /\ cur' = r.cur
  /\ ops' = Append(ops, [op |-> "varint_read_u64", at |-> cur.pos])
  /\ UNCHANGED hash
  /\ UNCHANGED varsIter
  /\ UNCHANGED varsCodec

ParseSeek ==
  /\ Running
  /\ \E p \in 0..MaxSeek :
       /\ p # cur.pos
       /\ cur' = set_position(cur, p)
       /\ ops' = Append(ops, [op |-> "seek", at |-> p])
  /\ UNCHANGED <<hash, rd>>
  /\ UNCHANGED varsIter
  /\ UNCHANGED varsCodec

NextParse ==
  \/ ParseToBytes
  \/ ParseFromBytes
  \/ ParseRead
  \/ ParseReadU64
  \/ ParseVarintReadU64
  \/ ParseSeek

SpecParse == InitParse /\ [][NextParse]_vars

\* the last operation, and the position it was called at
LastOp == IF ops = <<>> THEN "none" ELSE ops[Len(ops)].op

LastAt == IF ops = <<>> THEN 0 ELSE ops[Len(ops)].at

\* the index of the first byte of b at or after i without the continuation
\* bit, among at most 10 bytes; 0 when there is none
RECURSIVE VarintEnd(_, _, _)
VarintEnd(b, i, n) ==
  IF n = 10 \/ i + n > Len(b) THEN 0
  ELSE IF b[i + n] < 128 THEN i + n
  ELSE VarintEnd(b, i, n + 1)

\* b holds at i a terminated unsigned varint in its shortest form whose
\* value fits 64 bits
VarintAt(b, i) ==
  LET Fits(e) == Len(GroupsValue(SubSeq(b, i, e))) <= 8
      Minimal(e) == e # 0 /\ (e = i \/ b[e] # 0) /\ Fits(e)
  IN  Minimal(VarintEnd(b, i, 0))

\* the length of the multihash b starts with: two varints, the second at most
\* S, and that many bytes; 0 when b does not start with a multihash
FrameLen(b) ==
  LET Sized(e2, size) ==
        IF MagLt(MagOfNat(S), size) THEN 0
        ELSE IF e2 + MagToNat(size) > Len(b) THEN 0
        ELSE e2 + MagToNat(size)
      Second(e1) ==
        IF ~VarintAt(b, e1 + 1) THEN 0
        ELSE Sized(VarintEnd(b, e1 + 1, 0),
                   MagWrap(GroupsValue(SubSeq(b, e1 + 1, VarintEnd(b, e1 + 1, 0))), 8))
  IN  IF ~VarintAt(b, 1) THEN 0 ELSE Second(VarintEnd(b, 1, 0))

\* the last two operations are to_bytes and from_bytes
FromBytesOfToBytes ==
  /\ Len(ops) >= 2
  /\ ops[Len(ops) - 1].op = "to_bytes"
  /\ LastOp = "from_bytes"

\* C11: from_bytes(b) succeeds exactly when b is one whole multihash with
\* nothing after it, it fails with InvalidSize when b is longer than the
\* multihash it starts with, and from_bytes(m.to_bytes()) = Ok(m) for every
\* multihash m, built by wrap or by the scale decoder.
C11_FromBytesStrict ==
  /\ LastOp = "from_bytes" =>
       /\ rd.ok <=> (FrameLen(cur.inner) # 0 /\ FrameLen(cur.inner) = Len(cur.inner))
       /\ (FrameLen(cur.inner) # 0 /\ FrameLen(cur.inner) < Len(cur.inner))
            => rd = Err("InvalidSize")
  /\ FromBytesOfToBytes => (rd.ok /\ Multihash_eq(rd.val, hash.val))

\* b starts with two terminated varints in their shortest form, and the
\* second, the size, is greater than S or greater than 255
Oversized(b) ==
  LET Size(e1, e2) == MagWrap(GroupsValue(SubSeq(b, e1 + 1, e2)), 8)
      Second(e1) ==
        /\ VarintAt(b, e1 + 1)
        /\ \/ MagLt(MagOfNat(S), Size(e1, VarintEnd(b, e1 + 1, 0)))
           \/ MagLt(<<255>>, Size(e1, VarintEnd(b, e1 + 1, 0)))
  IN  VarintAt(b, 1) /\ Second(VarintEnd(b, 1, 0))

\* C12: when the size varint of the input is greater than S or greater than
\* 255, Multihash::read and Multihash::from_bytes both fail with InvalidSize.
C12_OversizeIsInvalidSize ==
  /\ (LastOp = "read" /\ Oversized(Drop(cur.inner, LastAt)))
       => rd = Err("InvalidSize")
  /\ (LastOp = "from_bytes" /\ Oversized(cur.inner))
       => rd = Err("InvalidSize")

\* the operation that set rd
RdOp ==
  LET Set == {i \in 1..Len(ops) : ops[i].op \notin {"seek", "to_bytes"}}
  IN  IF Set = {} THEN "none"
      ELSE ops[CHOOSE i \in Set : \A j \in Set : j <= i].op

\* rd holds a multihash returned by read or from_bytes
RdIsHash == rd.ok /\ RdOp \in {"read", "from_bytes"}

\* C13: two multihashes compare equal exactly when they have the same code
\* and the same first size bytes of the digest, whatever the unused tail of
\* the digest array holds and however they were built, and equal multihashes
\* feed the same input to a hasher.
C13_EqByCodeAndDigest ==
  (hash.ok /\ RdIsHash) =>
    /\ Multihash_eq(hash.val, rd.val)
         <=> (hash.val.code = rd.val.code /\ digest(hash.val) = digest(rd.val))
    /\ Multihash_eq(hash.val, rd.val)
         => Multihash_hash(hash.val) = Multihash_hash(rd.val)

\* the size is positive, within the digest array and within a byte, and
\* digest() has that many bytes
SizeInRange(mh) ==
  /\ 0 < mh.size
  /\ mh.size <= S
  /\ mh.size <= 255
  /\ Len(digest(mh)) = mh.size

\* C14: every multihash that wrap, read or from_bytes returns has
\* 0 < size <= S, size <= 255 and a digest() of size bytes.
C14_SizeInvariant ==
  /\ hash.ok => SizeInRange(hash.val)
  /\ RdIsHash => SizeInRange(rd.val)

\* the remaining bytes b begin with an unsigned varint in its shortest form
\* whose value fits 64 bits
ValidVarint(b) ==
  VarintAt(b, 1) /\ Len(GroupsValue(SubSeq(b, 1, VarintEnd(b, 1, 0)))) <= 8

\* C16: when the bytes at the cursor's position begin with a valid unsigned
\* varint of the value n in k bytes, varint_read_u64 returns Ok(n) and moves
\* the position forward by k.
C16_VarintReadU64Decodes ==
  LET Decodes(b, k) ==
        /\ rd = Ok(GroupsValue(SubSeq(b, 1, k)))
        /\ cur.pos = LastAt + k
      At(b) == ValidVarint(b) => Decodes(b, VarintEnd(b, 1, 0))
  IN  LastOp = "varint_read_u64" => At(Drop(cur.inner, LastAt))

\* C17: read_u64 returns the value of the bytes up to the first byte without
\* the continuation bit and leaves the cursor after it; it fails with the
\* varint overflow error when the stream ends before such a byte, when 10
\* bytes hold none, or when the value does not fit 64 bits.
C17_ReadU64 ==
  LET Value(b, k) == GroupsValue(SubSeq(b, 1, k))
      Terminated(b, k) ==
        IF Len(Value(b, k)) > 8 THEN rd = Err("Varint(Overflow)")
        ELSE rd = Ok(Value(b, k)) /\ cur.pos = LastAt + k
      At(b, k) ==
        IF k = 0 THEN rd = Err("Varint(Overflow)") ELSE Terminated(b, k)
      From(b) == At(b, VarintEnd(b, 1, 0))
  IN  LastOp = "read_u64" => From(Drop(cur.inner, LastAt))

\* C18: on a buffer of fewer than 10 bytes varint_read_u64 returns Ok or Err
\* and does not panic.
C18_VarintReadU64NoPanic ==
  (LastOp = "varint_read_u64" /\ Len(cur.inner) < 10) => rd # Panic

(***************************************************************************)
(* SpecIter: a value is iterated step by step, and its references are      *)
(* collected                                                               *)
(***************************************************************************)

MaxWidth == 2

MaxNones == 2

\* the multihash of an identity-hashed digest
IdentityHash(d) == wrap(<<>>, d).val

\* raw-codec (0x55) CIDs that differ in their digests
CidA == Cid_new_v1(<<85>>, IdentityHash(<<1>>))

CidB == Cid_new_v1(<<85>>, IdentityHash(<<2, 3>>))

CidC == Cid_new_v1(<<113>>, IdentityHash(<<>>))

KeyPool == << <<97>>, <<98>>, <<98, 97>>, <<99>> >>

\* all sequences over a set of length at most n
SeqsUpTo(set, n) == UNION {[1..k -> set] : k \in 0..n}

\* all maps whose keys are among the first n keys of the pool, the entries in
\* ascending key order
MapsOver(set, n) ==
  LET Pick(f) == SelectSeq([i \in 1..n |-> i], LAMBDA i : f[i] # <<>>)
  IN  {[j \in 1..Len(Pick(f)) |-> <<KeyPool[Pick(f)[j]], f[Pick(f)[j]][1]>>] :
         f \in [1..n -> {<<>>} \cup {<<x>> : x \in set}]}

IterLeaves == {Null, Link(CidA), Link(CidB)}

IterFlat ==
  {List(xs) : xs \in SeqsUpTo(IterLeaves, MaxWidth)}
    \cup {StringMap(m) : m \in MapsOver(IterLeaves, MaxWidth)}

IterSiblings == IterLeaves \cup {List(<<>>), List(<<Link(CidA)>>)}

IterNested ==
  {List(<<x, y>>) : x \in IterFlat, y \in IterSiblings}
    \cup {StringMap(<< <<KeyPool[1], x>>, <<KeyPool[2], y>> >>) :
            x \in IterFlat, y \in IterSiblings}

IterDeep ==
  {List(<<x>>) : x \in IterNested}
    \cup {StringMap(<< <<KeyPool[3], x>> >>) : x \in IterNested}

IterValues == IterLeaves \cup IterFlat \cup IterNested \cup IterDeep

InitIter ==
  /\ root \in IterValues
  /\ stack = iter(root)
  /\ yielded = <<>>
  /\ nones = 0
  /\ set0 \in {<<>>, <<CidA>>, <<CidC, CidB>>}
  /\ refs = NoResult
  /\ IdleMh
  /\ IdleCodec

IterNext ==
  /\ nones < MaxNones
  /\ LET n == IpldIter_next(stack)
     IN  /\ stack' = n.stack
         /\ yielded' = IF n.some THEN Append(yielded, n.item) ELSE yielded
         /\ nones' = IF n.some THEN nones ELSE nones + 1
  /\ UNCHANGED <<root, set0, refs>>
  /\ UNCHANGED varsMh
  /\ UNCHANGED varsCodec

References ==
  /\ refs = NoResult
  /\ refs' = Ok(references(root, set0))
  /\ UNCHANGED <<root, stack, yielded, nones, set0>>
  /\ UNCHANGED varsMh
  /\ UNCHANGED varsCodec

NextIter == IterNext \/ References

SpecIter == InitIter /\ [][NextIter]_vars

\* the values of a map in ascending byte order of their keys, whatever the
\* order the entries are stored in
ValuesByKey(m) ==
  [i \in 1..Len(m) |->
     LET e == CHOOSE k \in 1..Len(m) :
                Cardinality({j \in 1..Len(m) : BytesLt(m[j][1], m[k][1])}) = i - 1
     IN  m[e][2]]

\* the nodes of a value in pre-order
RECURSIVE PreOrder(_), PreOrderAll(_)
PreOrder(v) ==
  <<v>> \o (CASE v.kind = "List" -> PreOrderAll(v.list)
              [] v.kind = "StringMap" -> PreOrderAll(ValuesByKey(v.map))
              [] OTHER -> <<>>)

PreOrderAll(xs) ==
  IF xs = <<>> THEN <<>> ELSE PreOrder(Head(xs)) \o PreOrderAll(Tail(xs))

\* the CIDs of the links of a sequence of values, in order
RECURSIVE LinkCids(_)
LinkCids(xs) ==
  IF xs = <<>> THEN <<>>
  ELSE (IF Head(xs).kind = "Link" THEN <<Head(xs).link>> ELSE <<>>)
         \o LinkCids(Tail(xs))

\* C5: references appends to the collection the CID of every Link that iter()
\* yields, one per occurrence and in iteration order, and leaves what the
\* collection held before in place.
C5_ReferencesSound ==
  (refs.ok /\ nones > 0) => refs.val = set0 \o LinkCids(yielded)

\* links were added, twice the same one, to a collection that was not empty
C5_Witness ==
  /\ refs.ok /\ nones > 0
  /\ set0 # <<>>
  /\ Len(refs.val) >= Len(set0) + 2
  /\ \E i, j \in 1..Len(refs.val) : i < j /\ Len(set0) < i /\ refs.val[i] = refs.val[j]

\* C6: iter yields the nodes of the value in pre-order, the root first: a
\* container before its children, a List's in index order and a StringMap's in
\* ascending key order, a subtree before the next sibling, a Link as a leaf.
C6_IterPreOrder ==
  /\ IsPrefix(yielded, PreOrder(root))
  /\ nones > 0 => yielded = PreOrder(root)

\* a list whose first element is a two-entry map and that has a next sibling
\* has been iterated to the end
C6_Witness ==
  /\ nones > 0
  /\ root.kind = "List" /\ Len(root.list) = 2
  /\ root.list[1].kind = "StringMap" /\ Len(root.list[1].map) = 2
  /\ root.list[1].map[2][2].kind = "Link"
  /\ root.list[2] = Null
  /\ Len(yielded) = 5 /\ yielded[5] = Null

\* the children of a node, as stored
Children(v) ==
  CASE v.kind = "List" -> v.list
    [] v.kind = "StringMap" -> values(v.map)
    [] OTHER -> <<>>

\* the number of nodes of a value, the value itself among them
RECURSIVE NodeCount(_), NodeCountAll(_)
NodeCount(v) == 1 + NodeCountAll(Children(v))

NodeCountAll(xs) ==
  IF xs = <<>> THEN 0 ELSE NodeCount(Head(xs)) + NodeCountAll(Tail(xs))

\* C22: of the calls to next() on the iterator of a value with N nodes,
\* exactly the first N return Some; every call after them returns None and
\* finds or leaves the stack empty.
C22_IterFused ==
  /\ Len(yielded) <= NodeCount(root)
  /\ nones > 0 => (Len(yielded) = NodeCount(root) /\ stack = <<>>)

\* a value of six nodes has been iterated and next() has returned None twice
C22_Witness ==
  /\ nones = MaxNones
  /\ Len(yielded) = 6
  /\ stack = <<>>

\* the greatest number of containers on a path from v to one of its nodes
RECURSIVE MaxNest(_), MaxNestAll(_)
MaxNest(v) ==
  IF v.kind \in {"List", "StringMap"} THEN 1 + MaxNestAll(Children(v)) ELSE 0

MaxNestAll(xs) ==
  IF xs = <<>> THEN 0
  ELSE LET a == MaxNest(Head(xs))
           b == MaxNestAll(Tail(xs))
       IN  IF a > b THEN a ELSE b

\* the number of exhausted sub-iterators at the top of the stack
RECURSIVE Exhausted(_)
Exhausted(st) ==
  IF st = <<>> \/ st[Len(st)] # <<>> THEN 0
  ELSE 1 + Exhausted(SubSeq(st, 1, Len(st) - 1))

\* a call to next() pops the exhausted sub-iterators at the top, advances the
\* one below them and pushes one sub-iterator when the item is a container
NextShape ==
  LET Live == Len(stack) - Exhausted(stack)
      Item == yielded'[Len(yielded')]
  IN  IF Len(yielded') = Len(yielded) THEN stack' = <<>>
      ELSE /\ Live > 0
           /\ Item = Head(stack[Live])
           /\ Len(stack') = Live + (IF Item.kind \in {"List", "StringMap"} THEN 1 ELSE 0)
           /\ \A i \in 1..(Live - 1) : stack'[i] = stack[i]
           /\ stack'[Live] = Tail(stack[Live])

\* C23: the stack of the iterator never holds more than 1 + the greatest
\* nesting of containers of the value sub-iterators; a container pushes one
\* sub-iterator when it is yielded, and exhausted sub-iterators are popped
\* before the one below them is advanced.
C23_IterStackBound ==
  /\ [](Len(stack) <= 1 + MaxNest(root))
  /\ [][(stack' # stack \/ yielded' # yielded \/ nones' # nones) => NextShape]_vars

\* inside a value nested three deep the stack holds four sub-iterators
C23_Witness ==
  /\ MaxNest(root) = 3
  /\ Len(stack) = 4
  /\ yielded # <<>>

(***************************************************************************)
(* Values for the codecs                                                   *)
(***************************************************************************)

I64_MAX == <<127>> \o Rep(255, 7)

Two64 == <<1>> \o Rep(0, 8)

\* the sum of the bytes lo to hi of input, each weighted by its index and
\* by i
RECURSIVE WeightedSum(_, _, _, _)
WeightedSum(input, i, lo, hi) ==
  IF lo > hi THEN 0
  ELSE IF lo = hi THEN input[lo] * (i + lo)
  ELSE (WeightedSum(input, i, lo, (lo + hi) \div 2)
          + WeightedSum(input, i, (lo + hi) \div 2 + 1, hi)) % 65536

\* a stand-in for the Blake2b-256 function, which is outside the library: 32
\* bytes that depend on every byte of the input
Blake2b256(input) ==
  [i \in 1..32 |-> (Len(input) + 7 * i + WeightedSum(input, i, 1, Len(input))) % 256]

\* Code::Blake2b256.digest: code 0xb220, 32 bytes of an S-byte buffer
Code_Blake2b256_digest(input) == wrap(<<178, 32>>, Blake2b256(input)).val

\* Codec::encode for DagJsonCodec: a new cursor, written from position 0
DagJsonCodec_encode(obj) == Ok(dag_json_encode(obj, ByteCursor_new(<<>>)))

\* Codec::encode for DagCborCodec
DagCborCodec_encode(obj) ==
  LET Written(e) == IF e.ok THEN Ok(e.cur) ELSE Err(e.err)
  IN  Written(dag_cbor_encode(obj, ByteCursor_new(<<>>)))

\* a slip: the CID of DAG-JSON bytes is given the DAG-CBOR code
dag_json_cid_0x71(ipld) ==
  Ok(Cid_new_v1(<<113>>,
                Code_Blake2b256_digest(DagJsonCodec_encode(ipld).val.inner)))

\* dag_json::cid
dag_json_cid(ipld) ==
  Ok(Cid_new_v1(<<1, 41>>,
                Code_Blake2b256_digest(DagJsonCodec_encode(ipld).val.inner)))

\* dag_cbor::cid; unwrap panics when the value cannot be encoded
dag_cbor_cid(x) ==
  LET Hashed(e) ==
        IF ~e.ok THEN Panic
        ELSE Ok(Cid_new_v1(<<113>>, Code_Blake2b256_digest(e.val.inner)))
  IN  Hashed(DagCborCodec_encode(x))

\* a sha2-256 CID of version 0 and the CID dag_cbor::cid gives List([])
CidV0 == Cid_new_v0(wrap(<<18>>, [i \in 1..32 |-> 8 * i - 1]).val)

CidBlake == Cid_new_v1(<<113>>, Code_Blake2b256_digest(<<128>>))

Cids == {CidA, CidB, CidC, CidV0, CidBlake}

KeyA == Lit(<<"a">>)

IntsSmall ==
  {Integer(FALSE, MagOfNat(n)) : n \in {0, 1, 23, 24, 255, 256, 65535, 65536}}
    \cup {Integer(TRUE, MagOfNat(n)) : n \in {1, 24, 25, 256, 257}}

IntsWide ==
  {Integer(FALSE, Rep(255, 4)), Integer(FALSE, <<1, 0, 0, 0, 0>>),
   Integer(FALSE, I64_MAX), Integer(TRUE, I64_MIN_MAG)}

\* outside i64, inside [-2^64, 2^64 - 1]
IntsBeyondI64 ==
  {Integer(FALSE, I64_MIN_MAG), Integer(FALSE, U64_MAX),
   Integer(TRUE, MagInc(I64_MIN_MAG)), Integer(TRUE, Two64)}

\* outside [-2^64, 2^64 - 1]
IntsBeyondU64 == {Integer(FALSE, Two64), Integer(TRUE, MagInc(Two64))}

FloatsFinite ==
  {Float(F64Zero(FALSE)), Float(F64Zero(TRUE)),
   Float(f64_from_decimal(FALSE, <<1, 5>>, -1)),
   Float(f64_from_decimal(TRUE, <<1>>, -7)),
   Float(f64_from_decimal(FALSE, <<1>>, -1)),
   Float(f64_from_decimal(FALSE, <<1>>, 16)),
   Float(f64_from_decimal(FALSE, <<3>>, 0)),
   Float(f64_from_decimal(FALSE, Rep(9, 16), -11)),
   Float(f64_from_decimal(FALSE, <<2>> \o Rep(0, 15) \o <<2, 5>>, -2))}

FloatsSpecial == {Float(F64Inf(FALSE)), Float(F64Inf(TRUE)), Float(F64NaN)}

Texts ==
  {<<>>, KeyA, SPECIAL_KEY, BytesKey, <<34>>, <<92>>, <<10>>, <<195, 169>>,
   Lit(<<"A", "A", "=", "=">>), Lit(<<"A", "A">>), Lit(<<"A">>),
   base64_encode(Cid_to_bytes(CidA))}

ByteSeqs ==
  {<<>>, <<0>>, <<1, 2>>, <<255, 254, 253>>, <<1, 2, 3, 4>>, Rep(7, 24)}

Leaves ==
  {Null, Bool(TRUE), Bool(FALSE)}
    \cup IntsSmall \cup IntsWide \cup IntsBeyondI64 \cup IntsBeyondU64
    \cup FloatsFinite \cup FloatsSpecial
    \cup {String(s) : s \in Texts}
    \cup {Bytes(b) : b \in ByteSeqs}
    \cup {Link(c) : c \in Cids}

CoreLeaves ==
  {Null, Integer(FALSE, <<1>>), String(KeyA), Bytes(<<0>>), Link(CidA)}

Lists ==
  {List(xs) : xs \in SeqsUpTo(CoreLeaves, MaxWidth)}
    \cup {List(<<x>>) : x \in Leaves}

\* the nodes of a value, the value itself among them
Nodes(v) == {PreOrder(v)[i] : i \in 1..Len(PreOrder(v))}

(***************************************************************************)
(* SpecJson: a value is encoded into a cursor as DAG-JSON, the cursor is   *)
(* rewound, and the buffer is decoded                                      *)
(***************************************************************************)

MaxCodecOps == 3

\* a codec call that panicked ends the run
CodecRunning == Len(clog) < MaxCodecOps /\ dec # Panic /\ refs # Panic

JsonMaps ==
  {StringMap(<< <<k, x>> >>) : k \in {SPECIAL_KEY, KeyA, BytesKey}, x \in Leaves}
    \cup {StringMap(<< <<SPECIAL_KEY, x>>, <<KeyA, y>> >>) :
            x \in CoreLeaves, y \in CoreLeaves}
    \cup {StringMap(<<>>)}

JsonInner ==
  {StringMap(<< <<k, x>> >>) :
     k \in {SPECIAL_KEY, KeyA, BytesKey},
     x \in CoreLeaves \cup {String(s) : s \in Texts}}
    \cup {StringMap(<< <<BytesKey, String(Lit(<<"A", "A", "=", "=">>))>>, <<Lit(<<"z">>), Null>> >>),
          StringMap(<< <<KeyA, Null>>, <<BytesKey, String(Lit(<<"A", "A", "=", "=">>))>> >>)}
    \cup {List(xs) : xs \in SeqsUpTo(CoreLeaves, MaxWidth)}

JsonNested ==
  {StringMap(<< <<k, m>> >>) : k \in {SPECIAL_KEY, KeyA}, m \in JsonInner}
    \cup {List(<<m>>) : m \in JsonInner}

JsonValues == Leaves \cup Lists \cup JsonMaps \cup JsonNested

InitJson ==
  /\ dag \in JsonValues
  /\ bc = ByteCursor_new(<<>>)
  /\ dec = NoResult
  /\ clog = <<>>
  /\ cids = [json |-> NoResult, cbor |-> NoResult]
  /\ IdleMh
  /\ IdleIter

\* Encode::encode(&value, DagJsonCodec, &mut bc)
JsonEncode ==
  /\ CodecRunning
  /\ bc' = dag_json_encode(dag, bc)
  /\ clog' = Append(clog, [op |-> "encode", at |-> bc.pos])
  /\ UNCHANGED <<dag, dec, cids>>
  /\ UNCHANGED <<varsMh, varsIter>>

\* bc.set_position(0)
JsonSetPosition ==
  /\ CodecRunning
  /\ bc.pos # 0
  /\ bc' = set_position(bc, 0)
  /\ clog' = Append(clog, [op |-> "seek", at |-> 0])
  /\ UNCHANGED <<dag, dec, cids>>
  /\ UNCHANGED <<varsMh, varsIter>>

\* Decode::decode(DagJsonCodec, &mut bc)
JsonDecode ==
  /\ CodecRunning
  /\ dec' = dag_json_decode(bc)
  /\ clog' = Append(clog, [op |-> "decode", at |-> bc.pos])
  /\ UNCHANGED <<dag, bc, cids>>
  /\ UNCHANGED <<varsMh, varsIter>>

\* from_dag_json_string of the text the cursor holds
JsonFromString ==
  /\ CodecRunning
  /\ dec' = from_dag_json_string(bc.inner)
  /\ clog' = Append(clog, [op |-> "from_dag_json_string", at |-> 0])
  /\ UNCHANGED <<dag, bc, cids>>
  /\ UNCHANGED <<varsMh, varsIter>>

NextJson == JsonEncode \/ JsonSetPosition \/ JsonDecode \/ JsonFromString

SpecJson == InitJson /\ [][NextJson]_vars

\* the value was encoded once, into the empty cursor, and nothing else was done
EncodedOnce == clog = <<[op |-> "encode", at |-> 0]>>

\* the value was encoded once, into the empty cursor, and the buffer has just
\* been decoded
EncodedThenDecoded ==
  /\ Len(clog) >= 2
  /\ clog[1] = [op |-> "encode", at |-> 0]
  /\ clog[Len(clog)].op = "decode"
  /\ \A i \in 2..(Len(clog) - 1) : clog[i].op = "seek"

IntegerInI64(x) ==
  IF x.neg THEN MagLe(x.mag, I64_MIN_MAG) ELSE MagLe(x.mag, I64_MAX)

\* the values the DAG-JSON round trip is stated for: integers within i64, no
\* NaN and no infinite float anywhere in the value
InJsonScope(v) ==
  \A n \in Nodes(v) :
     /\ n.kind = "Integer" => IntegerInI64(n.int)
     /\ n.kind = "Float" => ~is_nan(n.f64) /\ ~is_infinite(n.f64)

\* C1: for every value in scope (integers within i64, no NaN, no infinite
\* float; StringMap keys arbitrary), encoding it with DagJsonCodec into a cursor
\* and decoding that buffer returns Ok of an equal value
C1_JsonRoundTrip ==
  (EncodedThenDecoded /\ InJsonScope(dag)) => (dec.ok /\ IpldEq(dec.val, dag))

\* C3: the DAG-JSON encoder is injective: a value whose encoding is the
\* encoding of dag is dag
C3_JsonEncoderInjective ==
  EncodedOnce => \A v2 \in JsonValues : Ipld_serialize(v2) = bc.inner => v2 = dag

\* C7: the DAG-JSON encoding of Link(c) is the object with the single key "/"
\* whose value is the multibase text of c (base32 lower-case for a v1 CID,
\* base58btc without a prefix for a v0 CID)
C7_JsonLinkText ==
  (EncodedOnce /\ dag.kind = "Link")
    => bc.inner = <<123, 34, 47, 34, 58, 34>> \o Cid_to_string(dag.link)
                    \o <<34, 125>>

\* C8: decoding the DAG-JSON encoding of Link(c) returns Ok(Link(c))
C8_JsonLinkRoundTrip ==
  (EncodedThenDecoded /\ dag.kind = "Link") => dec = Ok(dag)


\* C9: the DAG-JSON encoding of Bytes(b) is {"/":{"bytes":s}} with s the
\* base64 encoding of b without padding characters
C9_JsonBytesNoPad ==
  (EncodedOnce /\ dag.kind = "Bytes")
    => bc.inner = <<123, 34, 47, 34, 58, 123, 34>> \o BytesKey \o <<34, 58, 34>>
                    \o base64_encode_nopad(dag.bytes) \o <<34, 125, 125>>

\* the text t is one JSON value, with nothing but whitespace after it
ExactlyOneValue(t) ==
  LET Ends(v) == v.ok /\ SkipWs(t, v.pos) > Len(t)
  IN  Ends(parse_value(t, 1, RECURSION_LIMIT))

\* the buffer has just been decoded, by decode or by from_dag_json_string
JustDecoded ==
  clog # <<>> /\ clog[Len(clog)].op \in {"decode", "from_dag_json_string"}

\* C19: decode and from_dag_json_string return a value only when the whole
\* input is exactly one JSON value; a value followed by further bytes that
\* are not whitespace is refused.
C19_JsonDecodeWholeInput ==
  (JustDecoded /\ dec.ok) => ExactlyOneValue(bc.inner)

\* v is written as an object whose single key is "/" and whose value is an
\* object with the single key "bytes" and a string under it
IsBytesEscape(v) ==
  \/ v.kind = "Bytes"
  \/ /\ v.kind = "StringMap"
     /\ Len(v.map) = 1
     /\ v.map[1][1] = SPECIAL_KEY
     /\ v.map[1][2].kind = "StringMap"
     /\ Len(v.map[1][2].map) = 1
     /\ v.map[1][2].map[1][1] = BytesKey
     /\ v.map[1][2].map[1][2].kind = "String"

\* v is {"/": m} where m has the key "bytes" and further keys
HasBytesAndMore(v) ==
  /\ v.kind = "StringMap"
  /\ Len(v.map) = 1
  /\ v.map[1][1] = SPECIAL_KEY
  /\ v.map[1][2].kind = "StringMap"
  /\ Len(v.map[1][2].map) > 1
  /\ \E i \in 1..Len(v.map[1][2].map) : v.map[1][2].map[i][1] = BytesKey

\* C20: the decoder returns Bytes only for an object whose single key is "/"
\* and whose value is an object with exactly the one key "bytes" and a string
\* under it; {"/": m} where m has "bytes" and further keys decodes to the
\* StringMap with every entry of m.
C20_JsonEscapeExact ==
  EncodedThenDecoded =>
    /\ (dec.ok /\ dec.val.kind = "Bytes") => IsBytesEscape(dag)
    /\ HasBytesAndMore(dag) => dec = Ok(dag)

(***************************************************************************)
(* SpecJsonCursor: values are encoded into one cursor, the cursor is moved, *)
(* and the buffer is decoded or searched for references                    *)
(***************************************************************************)

\* a slip: a buffer that does not decode is passed over in silence
Ipld_references_json_unchecked(r, set) ==
  LET Decoded(d) ==
        IF d = Panic THEN [ok |-> FALSE, panic |-> TRUE, set |-> set]
        ELSE IF ~d.ok THEN [ok |-> TRUE, set |-> set]
        ELSE [ok |-> TRUE, set |-> references(d.val, set)]
  IN  Decoded(dag_json_decode(r))

\* References<DagJsonCodec> for Ipld: Ipld::decode(c, r)?.references(set)
Ipld_references_json(r, set) ==
  LET Decoded(d) ==
        IF d = Panic THEN [ok |-> FALSE, panic |-> TRUE, set |-> set]
        ELSE IF ~d.ok THEN [ok |-> FALSE, err |-> d.err, set |-> set]
        ELSE [ok |-> TRUE, set |-> references(d.val, set)]
  IN  Decoded(dag_json_decode(r))

\* Codec::references
DagJsonCodec_references(bytes, set) == Ipld_references_json(bytes, set)

CursorValues ==
  {Null, Bool(TRUE), Integer(FALSE, <<1>>), Float(f64_from_decimal(FALSE, <<1, 5>>, -1)),
   Integer(TRUE, <<1>>), Float(f64_from_decimal(TRUE, <<1, 5>>, -1)),
   String(KeyA), Bytes(<<0>>), Link(CidA), Link(CidBlake), Link(CidV0),
   List(<<>>),
   List(<<Link(CidV0), Null, List(<<Link(CidV0)>>)>>),
   List(<<Link(CidV0), StringMap(<< <<SPECIAL_KEY, String(KeyA)>> >>)>>),
   List(<<Link(CidA), Null, Link(CidB)>>),
   List(<<Link(CidB), List(<<Link(CidB), Link(CidA)>>)>>),
   StringMap(<<>>),
   StringMap(<< <<KeyA, Link(CidB)>>, <<BytesKey, Link(CidA)>> >>),
   StringMap(<< <<KeyA, List(<<Link(CidV0)>>)>> >>),
   StringMap(<< <<SPECIAL_KEY, String(KeyA)>> >>),
   List(<<Link(CidA), StringMap(<< <<SPECIAL_KEY, String(KeyA)>> >>)>>)}

InitJsonCursor ==
  /\ dag \in CursorValues
  /\ bc = ByteCursor_new(<<>>)
  /\ dec = NoResult
  /\ clog = <<>>
  /\ cids = [json |-> NoResult, cbor |-> NoResult]
  /\ root = Null
  /\ stack = <<>>
  /\ yielded = <<>>
  /\ nones = 0
  /\ set0 \in {<<>>, <<CidC, CidB>>}
  /\ refs = NoResult
  /\ IdleMh

\* bc.set_position(p)
CursorSeek ==
  /\ CodecRunning
  /\ \E p \in 0..MaxSeek :
       /\ p # bc.pos
       /\ bc' = set_position(bc, p)
       /\ clog' = Append(clog, [op |-> "seek", at |-> p])
  /\ UNCHANGED <<dag, dec, cids>>
  /\ UNCHANGED <<varsMh, varsIter>>

\* DagJsonCodec.references(bc, &mut set): the set is extended in place
JsonReferences ==
  /\ CodecRunning
  /\ LET Returned(r) ==
           /\ refs' = IF r.ok THEN Ok(<<>>)
                      ELSE IF "panic" \in DOMAIN r THEN Panic
                      ELSE Err(r.err)
           /\ set0' = r.set
     IN  Returned(DagJsonCodec_references(bc, set0))
  /\ clog' = Append(clog, [op |-> "references", at |-> set0])
  /\ UNCHANGED <<dag, bc, dec, cids>>
  /\ UNCHANGED <<root, stack, yielded, nones>>
  /\ UNCHANGED varsMh

NextJsonCursor == JsonEncode \/ CursorSeek \/ JsonDecode \/ JsonReferences

SpecJsonCursor == InitJsonCursor /\ [][NextJsonCursor]_vars

\* C21: references through the DAG-JSON codec decodes the buffer first: when
\* the buffer does not decode the call returns the decoder's Err and the set
\* is as it was, and when it decodes to v the set is extended by the links of
\* v, as v.references(set) extends it.  A decode that panics ends the call
\* before the set is touched.
C21_ReferencesAtomic ==
  LET Collected(before, d) ==
        CASE d.ok -> refs = Ok(<<>>) /\ set0 = before \o LinkCids(PreOrder(d.val))
          [] d = Panic -> refs = Panic /\ set0 = before
          [] OTHER -> refs = Err(d.err) /\ set0 = before
  IN  (clog # <<>> /\ clog[Len(clog)].op = "references")
        => Collected(clog[Len(clog)].at, dag_json_decode(bc))

\* references was called with a set that was not empty, once on a buffer
\* that does not decode and once on a buffer with links
C21_Witness ==
  /\ Len(clog) = 3
  /\ clog[1].op = "references" /\ clog[3].op = "references"
  /\ clog[1].at # <<>>
  /\ Len(set0) >= Len(clog[1].at) + 2
  /\ refs.ok

\* the text written by n encodes of one value, one after the other
RECURSIVE Copies(_, _)
Copies(s, n) == IF n = 0 THEN <<>> ELSE s \o Copies(s, n - 1)

\* every operation but the last is an encode, and the last is a decode
DecodeAfterEncodes ==
  /\ Len(clog) >= 2
  /\ clog[Len(clog)].op = "decode"
  /\ \A i \in 1..(Len(clog) - 1) : clog[i].op = "encode"

\* decode returns what it returns for the same buffer at position 0, and the
\* position is where it was
DecodeFromByte0 ==
  (clog # <<>> /\ clog[Len(clog)].op = "decode") =>
     /\ dec = dag_json_decode(ByteCursor_new(bc.inner))
     /\ bc.pos = clog[Len(clog)].at

\* decode leaves the position and the buffer as they are
DecodeKeepsCursor ==
  [][(clog' # clog /\ clog'[Len(clog')].op = "decode") => bc' = bc]_vars

\* the text of the value begins with a digit: an integer or a finite float
\* that is not negative
DigitFirst(text) == IsDigit(text[1])

LongList == List(Rep(Null, 24))

LongText == String(Rep(97, 24))

CborMaps ==
  {StringMap(m) : m \in MapsOver({Null, Integer(FALSE, <<1>>)}, Len(KeyPool))}
    \cup {StringMap(<< <<k, x>> >>) : k \in {SPECIAL_KEY, KeyA}, x \in Leaves}

CborNested ==
  {List(<<StringMap(<< <<KeyA, x>> >>)>>) : x \in CoreLeaves}
    \cup {StringMap(<< <<KeyA, List(xs)>> >>) : xs \in SeqsUpTo(CoreLeaves, MaxWidth)}

CborValues ==
  Leaves \cup Lists \cup CborMaps \cup CborNested \cup {LongList, LongText}

InitCbor ==
  /\ dag \in CborValues
  /\ bc = ByteCursor_new(<<>>)
  /\ dec = NoResult
  /\ clog = <<>>
  /\ cids = [json |-> NoResult, cbor |-> NoResult]
  /\ IdleMh
  /\ IdleIter

\* Encode::encode(&value, DagCborCodec, &mut bc)
CborEncode ==
  /\ CodecRunning
  /\ LET e == dag_cbor_encode(dag, bc)
     IN  /\ bc' = e.cur
         /\ clog' = Append(clog, [op |-> IF e.ok THEN "encode" ELSE "encode_err",
                                  at |-> bc.pos])
  /\ UNCHANGED <<dag, dec, cids>>
  /\ UNCHANGED <<varsMh, varsIter>>

\* bc.set_position(0)
CborSetPosition ==
  /\ CodecRunning
  /\ bc.pos # 0
  /\ bc' = set_position(bc, 0)
  /\ clog' = Append(clog, [op |-> "seek", at |-> 0])
  /\ UNCHANGED <<dag, dec, cids>>
  /\ UNCHANGED <<varsMh, varsIter>>

\* Decode::decode(DagCborCodec, &mut bc)
CborDecode ==
  /\ CodecRunning
  /\ dec' = dag_cbor_decode(bc)
  /\ clog' = Append(clog, [op |-> "decode", at |-> bc.pos])
  /\ UNCHANGED <<dag, bc, cids>>
  /\ UNCHANGED <<varsMh, varsIter>>

NextCbor == CborEncode \/ CborSetPosition \/ CborDecode

SpecCbor == InitCbor /\ [][NextCbor]_vars

\* the value was encoded into the empty cursor, the cursor was rewound and the
\* buffer has just been decoded from position 0
EncodedRewoundDecoded ==
  clog = <<[op |-> "encode", at |-> 0], [op |-> "seek", at |-> 0],
           [op |-> "decode", at |-> 0]>>

IntegerInU64(x) ==
  IF x.neg THEN MagLe(x.mag, Two64) ELSE MagLe(x.mag, U64_MAX)

\* the values the DAG-CBOR round trip is stated for: no NaN, integers in
\* [-2^64, 2^64 - 1]
InCborScope(v) ==
  \A n \in Nodes(v) :
     /\ n.kind = "Integer" => IntegerInU64(n.int)
     /\ n.kind = "Float" => ~is_nan(n.f64)

\* C2: for every value without NaN whose integers lie in [-2^64, 2^64 - 1],
\* encoding it with DagCborCodec and decoding the bytes from position 0
\* returns Ok of an equal value, for a Link as for every other kind
C2_CborRoundTrip ==
  (EncodedRewoundDecoded /\ InCborScope(dag))
    => (dec.ok /\ IpldEq(dec.val, dag))

(***************************************************************************)
(* SpecCid: the CID of a value under each codec, next to the bytes the     *)
(* codec's encode returns for it                                           *)
(***************************************************************************)

\* From<DagJsonCodec> for u64
DagJsonCodec_code == <<1, 41>>

\* From<DagCborCodec> for u64
DagCborCodec_code == <<113>>

CidValues == Leaves \cup Lists \cup {LongList, LongText}

InitCid ==
  /\ dag \in CidValues
  /\ bc = ByteCursor_new(<<>>)
  /\ dec = NoResult
  /\ clog = <<>>
  /\ cids = [json |-> NoResult, cbor |-> NoResult]
  /\ IdleMh
  /\ IdleIter

\* DagJsonCodec.encode(&dag): the cursor it returns is kept
CidJsonEncode ==
  /\ clog = <<>>
  /\ LET e == DagJsonCodec_encode(dag)
     IN  /\ bc' = e.val
         /\ clog' = <<[op |-> "json", at |-> 0]>>
  /\ UNCHANGED <<dag, dec, cids>>
  /\ UNCHANGED <<varsMh, varsIter>>

\* DagCborCodec.encode(&dag): the cursor it returns is kept
CidCborEncode ==
  /\ clog = <<>>
  /\ LET e == DagCborCodec_encode(dag)
     IN  /\ bc' = IF e.ok THEN e.val ELSE bc
         /\ clog' = <<[op |-> IF e.ok THEN "cbor" ELSE "cbor_err", at |-> 0]>>
  /\ UNCHANGED <<dag, dec, cids>>
  /\ UNCHANGED <<varsMh, varsIter>>

\* dag_json::cid(&dag)
JsonCid ==
  /\ cids.json = NoResult
  /\ cids' = [cids EXCEPT !.json = dag_json_cid(dag)]
  /\ UNCHANGED <<dag, bc, dec, clog>>
  /\ UNCHANGED <<varsMh, varsIter>>

\* dag_cbor::cid(&dag)
CborCid ==
  /\ cids.cbor = NoResult
  /\ cids' = [cids EXCEPT !.cbor = dag_cbor_cid(dag)]
  /\ UNCHANGED <<dag, bc, dec, clog>>
  /\ UNCHANGED <<varsMh, varsIter>>

NextCid == CidJsonEncode \/ CidCborEncode \/ JsonCid \/ CborCid

SpecCid == InitCid /\ [][NextCid]_vars

\* c is a version-1 CID with the codec code whose multihash is Blake2b-256
\* (code 0xb220, 32 bytes) of bytes
IsBlake2bCidOf(c, code, bytes) ==
  /\ c.ok
  /\ c.val.version = 1
  /\ c.val.codec = code
  /\ c.val.hash.code = <<178, 32>>
  /\ c.val.hash.size = 32
  /\ SubSeq(c.val.hash.digest, 1, 32) = Blake2b256(bytes)

\* C4: cid(v) of each codec module is a version-1 CID whose codec field is
\* the code of that codec (0x0129 for dag_json, 0x71 for dag_cbor) and whose
\* multihash is Blake2b-256 over exactly the bytes the codec's encode returns
\* for v; dag_cbor::cid panics for a value the codec cannot encode
C4_CidStable ==
  /\ (cids.json # NoResult /\ clog = <<[op |-> "json", at |-> 0]>>)
       => IsBlake2bCidOf(cids.json, DagJsonCodec_code, bc.inner)
  /\ (cids.cbor # NoResult /\ clog = <<[op |-> "cbor", at |-> 0]>>)
       => IsBlake2bCidOf(cids.cbor, DagCborCodec_code, bc.inner)
  /\ (cids.cbor # NoResult /\ clog = <<[op |-> "cbor_err", at |-> 0]>>)
       => cids.cbor = Panic

\* both CIDs of a value with a nested link have been computed next to its
\* DAG-JSON bytes
C4_Witness ==
  /\ dag = List(<<Link(CidA), Link(CidA)>>)
  /\ clog = <<[op |-> "json", at |-> 0]>>
  /\ cids.json.ok
  /\ cids.cbor.ok
  /\ cids.json.val.codec = DagJsonCodec_code
  /\ cids.json.val # cids.cbor.val

(***************************************************************************)
(* SpecConv: u64 codec codes are converted into the codec markers          *)
(***************************************************************************)

\* TryFrom<u64> for DagCborCodec
DagCborCodec_try_from(x) == Ok("DagCborCodec")

\* TryFrom<u64> for DagJsonCodec
DagJsonCodec_try_from(x) == Ok("DagJsonCodec")

\* u64::from of a codec marker
u64_from(marker) ==
  IF marker = "DagCborCodec" THEN DagCborCodec_code ELSE DagJsonCodec_code

\* codes: 0, raw (0x55), dag-pb (0x70), dag-cbor (0x71), dag-json (0x0129),
\* its neighbour and u64::MAX
ConvCodes == {<<>>, <<85>>, <<112>>, <<113>>, <<1, 41>>, <<1, 42>>, Rep(255, 8)}

InitConv ==
  /\ IdleMh
  /\ IdleIter
  /\ IdleCodec

CborTryFrom ==
  /\ CodecRunning
  /\ \E x \in ConvCodes :
       /\ dec' = DagCborCodec_try_from(x)
       /\ clog' = Append(clog, [op |-> "DagCborCodec", at |-> x])
  /\ UNCHANGED <<dag, bc, cids>>
  /\ UNCHANGED <<varsMh, varsIter>>

JsonTryFrom ==
  /\ CodecRunning
  /\ \E x \in ConvCodes :
       /\ dec' = DagJsonCodec_try_from(x)
       /\ clog' = Append(clog, [op |-> "DagJsonCodec", at |-> x])
  /\ UNCHANGED <<dag, bc, cids>>
  /\ UNCHANGED <<varsMh, varsIter>>

NextConv == CborTryFrom \/ JsonTryFrom

SpecConv == InitConv /\ [][NextConv]_vars

\* C15: try_from(x) succeeds only for the codec's own code, 0x71 for
\* DagCborCodec and 0x0129 for DagJsonCodec, so that the marker converts back
\* to x, and fails with UnsupportedCodec for every other x.
C15_CodecCodeRoundTrip ==
  LET Own(op) == IF op = "DagCborCodec" THEN <<113>> ELSE <<1, 41>>
      Converted(last) ==
        IF last.at = Own(last.op)
        THEN dec.ok /\ dec.val = last.op /\ u64_from(dec.val) = last.at
        ELSE dec = Err("UnsupportedCodec")
  IN  clog # <<>> => Converted(clog[Len(clog)])
====
